---------------------------- MODULE Spec2Model ----------------------------
(***************************************************************************)
(* Model of the migration data pipeline of leblanguva/PEPFAR:              *)
(*   unified_processing_script.py  (ingest, fuse, derive features)         *)
(*   feature_engineering.py        (derive features from the sample file)  *)
(*                                                                         *)
(* A table (pandas DataFrame) is a sequence of records, one record per     *)
(* row, one field per column.  A Timestamp is the integer                  *)
(* (year * 12 + month - 1) * 32 + day, so that the order of timestamps is  *)
(* the order of the integers.  NaN / NaT / None in a numeric or date       *)
(* column is NULL; NaN in a string column is NullStr.                      *)
(***************************************************************************)
EXTENDS Integers, Naturals, Sequences, FiniteSets, TLC

VARIABLES pc, df1, df2, migration_df, gdelt_processed_event_data,
          master_df, temp_df_for_econ_lags,
          df, df_cleaned, train_df, test_df, df_model_t3, train_df_t3,
          test_df_t3, files, temp_df_cleaned,
          stage, completed,
          sheet_2019, sheet_2013, df_2019_present, df_2013_present,
          combined_df,
          date_str, parse_date_result, parse_date_flexible_result,
          sheet_df, problematic_date_range, df_melted_unified,
          df_melted_standalone, loaded, new_forecasts,
          world_gdf, results_df, country_final_data,
          script, sheet_files, attempted, failed, dl_result,
          block, arrivals, env_monthly, analysis, saved, correlated

\* The variables of estimate_rf_models.py and the files it writes.
estimate_vars == <<df, df_cleaned, train_df, test_df, df_model_t3,
                   train_df_t3, test_df_t3, files>>

\* The script that was started last and the scripts that ran to their end.
stage_vars == <<stage, completed>>

\* The variables of preprocess_migration_data.py and the two raw sheets.
ingest_vars == <<sheet_2019, sheet_2013, df_2019_present, df_2013_present,
                 combined_df>>

\* A column label and what the two date parsers return for it.
parse_vars == <<date_str, parse_date_result, parse_date_flexible_result>>

\* One sheet as read_csv returns it, the flag of the call, and the long
\* tables that preprocess_single_sheet and preprocess_spreadsheet make of it.
clean_vars == <<sheet_df, problematic_date_range, df_melted_unified,
                df_melted_standalone>>

\* What a run of perform_forecasting.py has loaded and the models whose new
\* forecasts it has printed.
forecast_vars == <<loaded, new_forecasts>>

\* The countries of world_countries.gpkg, the table of
\* calculate_distances.py and the table of determine_land_route.py.
land_vars == <<world_gdf, results_df, country_final_data>>

\* The script whose preprocess_main_migration_data runs, the two sheet files
\* on disk, the downloads that were attempted and those that failed, and
\* what the function returned.
download_vars == <<script, sheet_files, attempted, failed, dl_result>>

\* analyze_arrivals.py: the main block that runs, and per main block the
\* arrivals tables, the monthly environmental tables and the analysis
\* tables; the files written and the routes that were correlated.
arrivals_vars == <<block, arrivals, env_monthly, analysis, saved, correlated>>

aux_vars == <<stage_vars, ingest_vars, parse_vars, clean_vars, forecast_vars,
              land_vars, download_vars, arrivals_vars>>

\* The variables of the scripts other than the two feature scripts.
other_vars == <<estimate_vars, temp_df_cleaned, aux_vars>>

vars == <<pc, df1, df2, migration_df, gdelt_processed_event_data,
          master_df, temp_df_for_econ_lags, other_vars>>

(***************************************************************************)
(* Bounds of the model.                                                    *)
(***************************************************************************)
NumMonths == 3

Max2019Rows == 2

Max2013Rows == 1

MaxGdeltDays == 2

MaxFERows == 3

(***************************************************************************)
(* Values and dates.                                                       *)
(***************************************************************************)
NULL == -1

NullStr == "NaN"

Timestamp(y, m, d) == (y * 12 + (m - 1)) * 32 + d

to_period_M(ts) == ts \div 32

dt_year(ts) == (ts \div 32) \div 12

dt_month(ts) == ((ts \div 32) % 12) + 1

dt_quarter(ts) == ((dt_month(ts) - 1) \div 3) + 1

\* First month of the modelled date range: December 2022, so that the range
\* crosses a year boundary and reaches the months of the economic table.
FirstPeriod == 2022 * 12 + 11

Dates == { p * 32 + 1 : p \in FirstPeriod .. (FirstPeriod + NumMonths - 1) }

Nationalities == {"Mexico", "Romania"}

\* Alphabetical order of the nationality strings (str comparison).
NatRank(n) == CASE n = "Guatemala" -> 1
                [] n = "Mexico" -> 2
                [] n = "Romania" -> 3
                [] OTHER -> 4

\* Two distinct counts, so that the two sheets can disagree on a key.
EncounterValues == {1, 2}

(***************************************************************************)
(* Generic sequence helpers (DataFrame row selection, concatenation).      *)
(***************************************************************************)
RECURSIVE FlattenSeq(_)
FlattenSeq(ss) == IF ss = <<>> THEN <<>> ELSE Head(ss) \o FlattenSeq(Tail(ss))

\* The rows of t at the positions I, in table order (boolean-mask selection).
RowsAt(t, I) ==
  [k \in 1 .. Cardinality(I) |->
     t[CHOOSE i \in I : Cardinality({j \in I : j <= i}) = k]]

RECURSIVE SetToSeq(_)
SetToSeq(S) == IF S = {} THEN <<>>
               ELSE LET x == CHOOSE y \in S : TRUE
                    IN <<x>> \o SetToSeq(S \ {x})

RECURSIVE SumOver(_, _)
SumOver(f, I) == IF I = {} THEN 0
                 ELSE LET i == CHOOSE j \in I : TRUE
                      IN f[i] + SumOver(f, I \ {i})

\* All sequences over S of length at most n.
SeqsUpTo(S, n) == UNION { [1 .. k -> S] : k \in 0 .. n }

(***************************************************************************)
(* Sorting.                                                                *)
(***************************************************************************)
\* DataFrame.sort_values(by=['Date']): one key, default kind='quicksort',
\* which is not a stable sort: rows with an equal Date come out in any order.
\* The orders of the rows I of t in which the Date never decreases.
RECURSIVE DateOrders(_, _)
DateOrders(t, I) ==
  IF I = {} THEN { <<>> }
  ELSE LET first == { i \in I : \A j \in I : t[i].Date <= t[j].Date }
       IN UNION { { <<i>> \o rest : rest \in DateOrders(t, I \ {i}) } :
                  i \in first }

sort_values_Date(t) ==
  { [i \in 1 .. Len(t) |-> t[p[i]]] : p \in DateOrders(t, 1 .. Len(t)) }

NatDateLess(a, b) ==
  \/ NatRank(a.Nationality) < NatRank(b.Nationality)
  \/ /\ a.Nationality = b.Nationality
     /\ a.Date < b.Date

\* DataFrame.sort_values(by=['Nationality', 'Date']): several keys are sorted
\* with a lexsort, which is stable.
sort_values_Nationality_Date(t) ==
  LET pos(i) == 1 + Cardinality({ j \in 1 .. Len(t) :
                       \/ NatDateLess(t[j], t[i])
                       \/ /\ ~NatDateLess(t[i], t[j])
                          /\ j < i })
  IN [k \in 1 .. Len(t) |-> t[CHOOSE i \in 1 .. Len(t) : pos(i) = k]]

IsSortedNatDate(t) ==
  \A i, j \in 1 .. Len(t) : i < j => ~NatDateLess(t[j], t[i])

(***************************************************************************)
(* drop_duplicates.                                                        *)
(***************************************************************************)
\* Mutant: the deduplication is left out.
drop_duplicates_keep_last_Mut(t) == t

\* drop_duplicates(subset=['Nationality', 'Date'], keep='last')
drop_duplicates_keep_last(t) ==
  RowsAt(t, { i \in 1 .. Len(t) :
                \A j \in (i + 1) .. Len(t) :
                   ~(t[j].Nationality = t[i].Nationality /\ t[j].Date = t[i].Date) })

\* Mutant: the deduplication by Date is left out.
drop_duplicates_Date_Mut(t) == t

\* drop_duplicates(subset=['Date'])  (keep='first')
drop_duplicates_Date(t) ==
  RowsAt(t, { i \in 1 .. Len(t) :
                \A j \in 1 .. (i - 1) : t[j].Date # t[i].Date })

(***************************************************************************)
(* Covariate tables of unified_processing_script.py.                       *)
(***************************************************************************)
distance_Nationality ==
  <<"Mexico", "Guatemala", "Honduras", "El Salvador", "Cuba", "Venezuela",
    "Ecuador", "Colombia", "Nicaragua", "Peru", "Haiti", "Brazil", "India",
    "China">>

distance_FIPS ==
  <<"MX", "GT", "HN", "ES", "CU", "VE", "EC", "CO", "NU", "PE", "HA", "BR",
    "IN", "CH">>

distance_km ==
  <<100, 1500, 1800, 1600, 2000, 4000, 3000, 3500, 2000, 4500, 2500, 5000,
    12000, 10000>>

\* get_country_distances(): the placeholder distance table.
get_country_distances ==
  [i \in 1 .. Len(distance_Nationality) |->
     [Nationality |-> distance_Nationality[i],
      FIPS_CountryCode |-> distance_FIPS[i],
      DistanceToUSBORDER_km |-> distance_km[i]]]

\* get_us_economic_data(): one row per month of 2023.
get_us_economic_data ==
  [m \in 1 .. 12 |->
     [Date |-> Timestamp(2023, m, 1),
      US_Hospitality_JobOpenings |-> 9000000 + (m - 1) * 10000,
      US_Construction_JobOpenings |-> 800000 + (m - 1) * 5000]]

econ_cols_to_lag == <<"US_Hospitality_JobOpenings", "US_Construction_JobOpenings">>

(***************************************************************************)
(* Left joins (pd.merge(left, right, on=..., how='left')): every left row  *)
(* yields one output row per matching right row (matched[i]), and one row  *)
(* with null right columns (unmatched[i]) when no right row matches.       *)
(***************************************************************************)
LeftJoin(matched, unmatched) ==
  FlattenSeq([i \in 1 .. Len(matched) |->
     IF matched[i] = <<>> THEN << unmatched[i] >> ELSE matched[i]])

\* pd.merge(master_df, country_distances_df, on='Nationality', how='left')
merge_distances(left, right) ==
  LET Matches(l) == LET Test(r) == r.Nationality = l.Nationality
                    IN SelectSeq(right, Test)
      Joined(l, r) == l @@ [FIPS_CountryCode |-> r.FIPS_CountryCode,
                            DistanceToUSBORDER_km |-> r.DistanceToUSBORDER_km]
      Unmatched(l) == l @@ [FIPS_CountryCode |-> NullStr,
                            DistanceToUSBORDER_km |-> NULL]
  IN LeftJoin([i \in 1 .. Len(left) |->
                 [j \in 1 .. Len(Matches(left[i])) |->
                    Joined(left[i], Matches(left[i])[j])]],
              [i \in 1 .. Len(left) |-> Unmatched(left[i])])

\* master_df['MonthYear_dt'] = Date.to_period('M'), the same on us_econ_df,
\* pd.merge(..., us_econ_df.drop(columns=['Date']), on='MonthYear_dt',
\* how='left'), then the key column is dropped.
merge_econ(left, right) ==
  LET Matches(l) == LET Test(r) == to_period_M(r.Date) = to_period_M(l.Date)
                    IN SelectSeq(right, Test)
      Joined(l, r) ==
        l @@ [US_Hospitality_JobOpenings |-> r.US_Hospitality_JobOpenings,
              US_Construction_JobOpenings |-> r.US_Construction_JobOpenings]
      Unmatched(l) == l @@ [US_Hospitality_JobOpenings |-> NULL,
                            US_Construction_JobOpenings |-> NULL]
  IN LeftJoin([i \in 1 .. Len(left) |->
                 [j \in 1 .. Len(Matches(left[i])) |->
                    Joined(left[i], Matches(left[i])[j])]],
              [i \in 1 .. Len(left) |-> Unmatched(left[i])])

\* gdelt.groupby(['MonthYear_dt_gdelt', 'FIPS_CountryCode'])['EventCount']
\*      .sum().reset_index(): one row per key.
gdelt_monthly_agg(gdelt) ==
  LET keys == { <<to_period_M(gdelt[i].Date), gdelt[i].FIPS_CountryCode>> :
                  i \in 1 .. Len(gdelt) }
      cnt == [i \in 1 .. Len(gdelt) |-> gdelt[i].EventCount]
  IN SetToSeq({ [MonthYear_dt_gdelt |-> k[1],
                 FIPS_CountryCode |-> k[2],
                 EventCount |-> SumOver(cnt, { i \in 1 .. Len(gdelt) :
                      /\ to_period_M(gdelt[i].Date) = k[1]
                      /\ gdelt[i].FIPS_CountryCode = k[2] })] : k \in keys })

\* pd.merge(master_df, gdelt_monthly_agg, on=['MonthYear_dt_gdelt',
\* 'FIPS_CountryCode'], how='left') and the rename of EventCount.
merge_gdelt(left, agg) ==
  LET Matches(l) ==
        LET Test(r) == /\ r.MonthYear_dt_gdelt = to_period_M(l.Date)
                       /\ r.FIPS_CountryCode = l.FIPS_CountryCode
        IN SelectSeq(agg, Test)
      Joined(l, r) == l @@ [GDELT_EventCount |-> r.EventCount]
      Unmatched(l) == l @@ [GDELT_EventCount |-> NULL]
  IN LeftJoin([i \in 1 .. Len(left) |->
                 [j \in 1 .. Len(Matches(left[i])) |->
                    Joined(left[i], Matches(left[i])[j])]],
              [i \in 1 .. Len(left) |-> Unmatched(left[i])])

\* df[col] = df[col].fillna(v)
fillna(t, col, v) ==
  [i \in 1 .. Len(t) |->
     IF t[i][col] = NULL THEN [t[i] EXCEPT ![col] = v] ELSE t[i]]

\* Mutant: the constant is one higher.
assign_const_Mut(t, col, v) ==
  [i \in 1 .. Len(t) |-> (col :> v + 1) @@ t[i]]

\* df[col] = v  (a new or overwritten constant column)
assign_const(t, col, v) ==
  [i \in 1 .. Len(t) |-> (col :> v) @@ t[i]]

(***************************************************************************)
(* Feature derivation.                                                     *)
(***************************************************************************)
MinOf(S) == CHOOSE x \in S : \A y \in S : x <= y

YearsOf(t) == { dt_year(t[i].Date) : i \in 1 .. Len(t) }

MonthsOf(t) == { dt_month(t[i].Date) : i \in 1 .. Len(t) }

\* unified_processing_script.create_time_based_features
create_time_based_features(t) ==
  [i \in 1 .. Len(t) |->
     t[i] @@ [Year |-> dt_year(t[i].Date),
              Month |-> dt_month(t[i].Date),
              Quarter |-> dt_quarter(t[i].Date),
              TimeIndex |-> (dt_year(t[i].Date) * 12 + dt_month(t[i].Date))
                            - (MinOf(YearsOf(t)) * 12 + MinOf(MonthsOf(t)))]]

\* feature_engineering.create_time_based_features
fe_create_time_based_features(t) ==
  [i \in 1 .. Len(t) |->
     t[i] @@ [Year |-> dt_year(t[i].Date),
              Month |-> dt_month(t[i].Date),
              Quarter |-> dt_quarter(t[i].Date),
              TimeIndex |-> (dt_year(t[i].Date) - MinOf(YearsOf(t))) * 12
                            + dt_month(t[i].Date) - MinOf(MonthsOf(t))]]

\* Mutant: the shift ignores the groups.
groupby_shift_Mut(t, col, lag) ==
  [i \in 1 .. Len(t) |->
     IF (i - lag) \in 1 .. Len(t) THEN t[i - lag][col] ELSE NULL]

\* df.groupby('Nationality')[col].shift(lag): the value of the row that is
\* lag places earlier in the row's own group, NaN when there is none.
groupby_shift(t, col, lag) ==
  [i \in 1 .. Len(t) |->
     LET G == { j \in 1 .. Len(t) : t[j].Nationality = t[i].Nationality }
         place(j) == Cardinality({ h \in G : h <= j })
     IN IF (place(i) - lag) \in 1 .. Cardinality(G)
        THEN t[CHOOSE j \in G : place(j) = place(i) - lag][col]
        ELSE NULL]

\* df[col].shift(lag)
shift(t, col, lag) ==
  [i \in 1 .. Len(t) |->
     IF (i - lag) \in 1 .. Len(t) THEN t[i - lag][col] ELSE NULL]

LagCol(col) == col \o "_lag"

\* create_lagged_features(df, column_name, lags, group_col): the columns
\* <column_name>_lag_<k> are held in one field, a function of k.
create_lagged_features(t, col, lags, group_col) ==
  LET by(k, i) == IF group_col # NullStr THEN groupby_shift(t, col, k)[i]
                  ELSE shift(t, col, k)[i]
  IN [i \in 1 .. Len(t) |->
        (LagCol(col) :> [k \in lags |-> by(k, i)]) @@ t[i]]

\* Mutant: the window is one row too long.
rolling_window_Mut(t, i, w) ==
  LET G == { j \in 1 .. Len(t) : t[j].Nationality = t[i].Nationality }
      place(j) == Cardinality({ h \in G : h <= j })
  IN { j \in G : place(j) <= place(i) /\ place(j) > place(i) - w - 1 }

\* groupby('Nationality')[col].rolling(window=w, min_periods=1): the rows of
\* the window that ends at row i, the last w rows of the group of row i.
rolling_window(t, i, w) ==
  LET G == { j \in 1 .. Len(t) : t[j].Nationality = t[i].Nationality }
      place(j) == Cardinality({ h \in G : h <= j })
  IN { j \in G : place(j) <= place(i) /\ place(j) > place(i) - w }

\* NaN as the result of a rolling aggregate: the fraction 0 / 0.
NaNFraction == <<0, 0>>

\* The mean of the values at the rows W, as the fraction <<sum, count>>;
\* NaN when fewer than min_periods = 1 values are there.
rolling_mean(t, col, W) ==
  IF Cardinality(W) < 1 THEN NaNFraction
  ELSE << SumOver([j \in 1 .. Len(t) |-> t[j][col]], W), Cardinality(W) >>

\* The sample standard deviation (ddof = 1) of the values at the rows W:
\* its square as the fraction <<n * sum(x^2) - sum(x)^2, n * (n - 1)>>;
\* NaN when the window holds fewer than 2 values.
rolling_std(t, col, W) ==
  LET n == Cardinality(W)
      sx == SumOver([j \in 1 .. Len(t) |-> t[j][col]], W)
      sxx == SumOver([j \in 1 .. Len(t) |-> t[j][col] * t[j][col]], W)
  IN IF n - 1 <= 0 THEN NaNFraction
     ELSE << n * sxx - sx * sx, n * (n - 1) >>

RollMeanCol(col) == col \o "_roll_mean"

RollStdCol(col) == col \o "_roll_std"

\* create_rolling_features(df, column_name, windows): the columns
\* <column_name>_roll_mean_<w>m and _roll_std_<w>m, functions of w.
create_rolling_features(t, col, windows) ==
  [i \in 1 .. Len(t) |->
     (RollMeanCol(col) :>
        [w \in windows |-> rolling_mean(t, col, rolling_window(t, i, w))])
     @@ (RollStdCol(col) :>
        [w \in windows |-> rolling_std(t, col, rolling_window(t, i, w))])
     @@ t[i]]

EncounterLags == {1, 2, 3, 6, 12}

EncounterWindows == {3, 6, 12}

EconLags == {1, 2, 3}

GdeltLags == {1, 2, 3}

(***************************************************************************)
(* Inputs of unified_processing_script.py.                                 *)
(***************************************************************************)
SheetRow == [Nationality : Nationalities, Date : Dates,
             Encounters : EncounterValues]

\* The results of preprocess_single_sheet: long tables sorted by
\* (Nationality, Date); a sheet may hold the same key twice.
Sheets(n) == { t \in SeqsUpTo(SheetRow, n) : IsSortedNatDate(t) }

GdeltDays == { Timestamp(2023, 1, d) : d \in 1 .. MaxGdeltDays }

\* The results of process_gdelt_event_file: one row per (Day, country), the
\* count of a group is at least 1; the empty table after a failed fetch.
GdeltTables ==
  UNION { { [i \in 1 .. Len(ds) |->
               [Date |-> ds[i], FIPS_CountryCode |-> "MX", EventCount |-> c[i]]] :
              c \in [1 .. Len(ds) -> {1}] } :
          ds \in { SetToSeq(D) : D \in SUBSET GdeltDays } }

Project(t, cols) == [i \in 1 .. Len(t) |-> [c \in cols |-> t[i][c]]]

\* pd.merge(master_df, temp_df_for_econ_lags[['Date'] + lagged cols],
\* on='Date', how='left')
merge_econ_lags(left, temp) ==
  LET lagcols == { LagCol(econ_cols_to_lag[c]) : c \in 1 .. Len(econ_cols_to_lag) }
      Matches(l) == LET Test(r) == r.Date = l.Date IN SelectSeq(temp, Test)
      Joined(l, r) == l @@ [c \in lagcols |-> r[c]]
      Unmatched(l) == l @@ [c \in lagcols |-> [k \in EconLags |-> NULL]]
  IN LeftJoin([i \in 1 .. Len(left) |->
                 [j \in 1 .. Len(Matches(left[i])) |->
                    Joined(left[i], Matches(left[i])[j])]],
              [i \in 1 .. Len(left) |-> Unmatched(left[i])])

\* Before estimate_rf_models.py has run: no table loaded, no file written.
EstimateIdle ==
  /\ df = <<>>
  /\ df_cleaned = <<>>
  /\ train_df = <<>>
  /\ test_df = <<>>
  /\ df_model_t3 = <<>>
  /\ train_df_t3 = <<>>
  /\ test_df_t3 = <<>>
  /\ files = {}

\* No script started, no sheet downloaded.
StageIdle ==
  /\ stage = "none"
  /\ completed = {}

IngestIdle ==
  /\ sheet_2019 = <<>>
  /\ sheet_2013 = <<>>
  /\ df_2019_present = <<>>
  /\ df_2013_present = <<>>
  /\ combined_df = <<>>

\* No label parsed.
ParseIdle ==
  /\ date_str = <<>>
  /\ parse_date_result = NULL
  /\ parse_date_flexible_result = NULL

\* No sheet read.
CleanIdle ==
  /\ sheet_df = <<>>
  /\ problematic_date_range = FALSE
  /\ df_melted_unified = <<>>
  /\ df_melted_standalone = <<>>

\* perform_forecasting.py has not run.
ForecastIdle ==
  /\ loaded = {}
  /\ new_forecasts = {}

\* No country file read.
LandIdle ==
  /\ world_gdf = <<>>
  /\ results_df = <<>>
  /\ country_final_data = <<>>

\* preprocess_main_migration_data has not been called.
DownloadIdle ==
  /\ script = "none"
  /\ sheet_files = <<>>
  /\ attempted = {}
  /\ failed = {}
  /\ dl_result = "none"

\* analyze_arrivals.py has not run.
ArrivalsIdle ==
  /\ block = 0
  /\ arrivals = <<>>
  /\ env_monthly = <<>>
  /\ analysis = <<>>
  /\ saved = {}
  /\ correlated = {}

OtherIdle ==
  /\ EstimateIdle
  /\ temp_df_cleaned = <<>>
  /\ StageIdle
  /\ IngestIdle
  /\ ParseIdle
  /\ CleanIdle
  /\ ForecastIdle
  /\ LandIdle
  /\ DownloadIdle
  /\ ArrivalsIdle

(***************************************************************************)
(* unified_processing_script.py: the script, one action per step.          *)
(***************************************************************************)
Init ==
  /\ pc = "start"
  /\ df1 \in Sheets(Max2019Rows)
  /\ df2 \in Sheets(Max2013Rows)
  /\ migration_df = <<>>
  /\ gdelt_processed_event_data = <<>>
  /\ master_df = <<>>
  /\ temp_df_for_econ_lags = <<>>
  /\ OtherIdle

\* preprocess_main_migration_data(): the downloads, the two sheets, and the
\* combination concat([df2, df1]) -> sort by Date -> drop_duplicates(keep=
\* 'last') -> sort by (Nationality, Date).
preprocess_main_migration_data ==
  /\ pc = "start"
  /\ \E dl1_success, dl2_success \in BOOLEAN :
       IF ~(dl1_success /\ dl2_success) THEN migration_df' = <<>>
       ELSE IF df1 = <<>> /\ df2 = <<>> THEN migration_df' = <<>>
       ELSE \E sorted \in sort_values_Date(df2 \o df1) :
              migration_df' =
                sort_values_Nationality_Date(drop_duplicates_keep_last(sorted))
  /\ pc' = "preprocessed"
  /\ UNCHANGED <<df1, df2, gdelt_processed_event_data, master_df,
                 temp_df_for_econ_lags>>
  /\ UNCHANGED other_vars

\* migration_df = preprocess_main_migration_data(); if migration_df.empty: exit()
CheckMigration ==
  /\ pc = "preprocessed"
  /\ pc' = IF migration_df = <<>> THEN "exit" ELSE "gdelt"
  /\ df1' = <<>>
  /\ df2' = <<>>
  /\ UNCHANGED <<migration_df, gdelt_processed_event_data, master_df,
                 temp_df_for_econ_lags>>
  /\ UNCHANGED other_vars

\* The GDELT sample: read from the daily sample file or downloaded and
\* processed; an empty table when the fetch fails or nothing matches.
FetchGdelt ==
  /\ pc = "gdelt"
  /\ gdelt_processed_event_data' \in GdeltTables
  /\ pc' = "merge_distance"
  /\ UNCHANGED <<df1, df2, migration_df, master_df, temp_df_for_econ_lags>>
  /\ UNCHANGED other_vars

MergeDistances ==
  /\ pc = "merge_distance"
  /\ master_df' = IF get_country_distances # <<>>
                  THEN merge_distances(migration_df, get_country_distances)
                  ELSE migration_df
  /\ pc' = "merge_econ"
  /\ UNCHANGED <<df1, df2, migration_df, gdelt_processed_event_data,
                 temp_df_for_econ_lags>>
  /\ UNCHANGED other_vars

MergeEcon ==
  /\ pc = "merge_econ"
  /\ master_df' = IF get_us_economic_data # <<>>
                  THEN merge_econ(master_df, get_us_economic_data)
                  ELSE master_df
  /\ pc' = "merge_gdelt"
  /\ UNCHANGED <<df1, df2, migration_df, gdelt_processed_event_data,
                 temp_df_for_econ_lags>>
  /\ UNCHANGED other_vars

MergeGdelt ==
  /\ pc = "merge_gdelt"
  /\ gdelt_processed_event_data # <<>>
  /\ master_df' = merge_gdelt(master_df,
                              gdelt_monthly_agg(gdelt_processed_event_data))
  /\ pc' = "fill_gdelt"
  /\ UNCHANGED <<df1, df2, migration_df, gdelt_processed_event_data,
                 temp_df_for_econ_lags>>
  /\ UNCHANGED other_vars

\* master_df['GDELT_EventCount'] = master_df['GDELT_EventCount'].fillna(0)
FillGdelt ==
  /\ pc = "fill_gdelt"
  /\ master_df' = fillna(master_df, "GDELT_EventCount", 0)
  /\ pc' = "time_features"
  /\ UNCHANGED <<df1, df2, migration_df, gdelt_processed_event_data,
                 temp_df_for_econ_lags>>
  /\ UNCHANGED other_vars

\* else: master_df['GDELT_EventCount'] = 0
SetGdeltZero ==
  /\ pc = "merge_gdelt"
  /\ gdelt_processed_event_data = <<>>
  /\ master_df' = assign_const(master_df, "GDELT_EventCount", 0)
  /\ pc' = "time_features"
  /\ UNCHANGED <<df1, df2, migration_df, gdelt_processed_event_data,
                 temp_df_for_econ_lags>>
  /\ UNCHANGED other_vars

TimeFeatures ==
  /\ pc = "time_features"
  /\ master_df' = create_time_based_features(master_df)
  /\ pc' = "encounter_lags"
  /\ UNCHANGED <<df1, df2, migration_df, gdelt_processed_event_data,
                 temp_df_for_econ_lags>>
  /\ UNCHANGED other_vars

LagEncounters ==
  /\ pc = "encounter_lags"
  /\ master_df' = create_lagged_features(master_df, "Encounters",
                                         EncounterLags, "Nationality")
  /\ pc' = "encounter_rolling"
  /\ UNCHANGED <<df1, df2, migration_df, gdelt_processed_event_data,
                 temp_df_for_econ_lags>>
  /\ UNCHANGED other_vars

RollEncounters ==
  /\ pc = "encounter_rolling"
  /\ master_df' = create_rolling_features(master_df, "Encounters",
                                          EncounterWindows)
  /\ pc' = "gdelt_lags"
  /\ UNCHANGED <<df1, df2, migration_df, gdelt_processed_event_data,
                 temp_df_for_econ_lags>>
  /\ UNCHANGED other_vars

\* if 'GDELT_EventCount' in columns and its sum > 0: lag it; else skip.
LagGdelt ==
  /\ pc = "gdelt_lags"
  /\ master_df' =
       IF SumOver([i \in 1 .. Len(master_df) |-> master_df[i].GDELT_EventCount],
                  1 .. Len(master_df)) > 0
       THEN create_lagged_features(master_df, "GDELT_EventCount", GdeltLags,
                                   "Nationality")
       ELSE master_df
  /\ pc' = "econ_lags"
  /\ UNCHANGED <<df1, df2, migration_df, gdelt_processed_event_data,
                 temp_df_for_econ_lags>>
  /\ UNCHANGED other_vars

\* temp_df_for_econ_lags: the economic columns deduplicated by Date, sorted
\* by Date, and lagged on that global series (group_col=None).
LagEcon ==
  /\ pc = "econ_lags"
  /\ \E sorted \in sort_values_Date(drop_duplicates_Date(
            Project(master_df, {"Date", econ_cols_to_lag[1], econ_cols_to_lag[2]}))) :
       temp_df_for_econ_lags' =
         create_lagged_features(
           create_lagged_features(sorted, econ_cols_to_lag[1], EconLags, NullStr),
           econ_cols_to_lag[2], EconLags, NullStr)
  /\ pc' = "merge_econ_lags"
  /\ UNCHANGED <<df1, df2, migration_df, gdelt_processed_event_data, master_df>>
  /\ UNCHANGED other_vars

MergeEconLags ==
  /\ pc = "merge_econ_lags"
  /\ master_df' = merge_econ_lags(master_df, temp_df_for_econ_lags)
  /\ pc' = "write"
  /\ UNCHANGED <<df1, df2, migration_df, gdelt_processed_event_data,
                 temp_df_for_econ_lags>>
  /\ UNCHANGED other_vars

\* master_df.to_csv(MASTER_DATASET_WITH_FEATURES_CSV)
WriteMaster ==
  /\ pc = "write"
  /\ pc' = "done"
  /\ UNCHANGED <<df1, df2, migration_df, gdelt_processed_event_data, master_df,
                 temp_df_for_econ_lags>>
  /\ UNCHANGED other_vars

Next ==
  \/ preprocess_main_migration_data
  \/ CheckMigration
  \/ FetchGdelt
  \/ MergeDistances
  \/ MergeEcon
  \/ MergeGdelt
  \/ FillGdelt
  \/ SetGdeltZero
  \/ TimeFeatures
  \/ LagEncounters
  \/ RollEncounters
  \/ LagGdelt
  \/ LagEcon
  \/ MergeEconLags
  \/ WriteMaster

Spec == Init /\ [][Next]_vars

(***************************************************************************)
(* feature_engineering.py: the script, one action per step.  Its input is  *)
(* the file master_dataset_final_sample.csv, the migration table joined    *)
(* with the distance and economic tables, with a GDELT_EventCount column   *)
(* when the GDELT table was not empty.                                     *)
(***************************************************************************)
HasUniqueKeys(t) ==
  \A i, j \in 1 .. Len(t) :
     (t[i].Nationality = t[j].Nationality /\ t[i].Date = t[j].Date) => i = j

\* Every nationality's rows are in chronological order in the table.
IsGroupChronological(t) ==
  \A i, j \in 1 .. Len(t) :
     (i < j /\ t[i].Nationality = t[j].Nationality) => t[i].Date < t[j].Date

\* The series of the lag and rolling examples: five consecutive months,
\* starting in October 2022, with Encounters 10, 20, 30, 40, 50.
ExampleDate(n) == Timestamp(2022, 10, 1) + (n - 1) * 32

ExampleSingle ==
  [n \in 1 .. 5 |->
     [Nationality |-> "Mexico", Date |-> ExampleDate(n), Encounters |-> n * 10]]

\* The same series with the rows of a second nationality in between.
ExampleInterleaved ==
  << ExampleSingle[1],
     [Nationality |-> "Romania", Date |-> ExampleDate(1), Encounters |-> 1],
     ExampleSingle[2],
     ExampleSingle[3],
     [Nationality |-> "Romania", Date |-> ExampleDate(3), Encounters |-> 2],
     ExampleSingle[4],
     ExampleSingle[5] >>

FEMigrationTables ==
  { t \in SeqsUpTo(SheetRow, MaxFERows) :
      t # <<>> /\ HasUniqueKeys(t) /\ IsGroupChronological(t) }
  \cup {ExampleSingle, ExampleInterleaved}

FEGdeltTables ==
  { <<>>,
    << [Date |-> Timestamp(2023, 1, 1), FIPS_CountryCode |-> "MX",
        EventCount |-> 1] >> }

\* The fused table that preprocess_gdelt_sample.py writes for a migration
\* table m and a GDELT table g.
FESampleFile(m, g) ==
  LET fused == merge_econ(merge_distances(m, get_country_distances),
                          get_us_economic_data)
  IN IF g # <<>>
     THEN fillna(merge_gdelt(fused, gdelt_monthly_agg(g)), "GDELT_EventCount", 0)
     ELSE fused

HasColumn(t, col) == t # <<>> /\ col \in DOMAIN t[1]

notna_any(t, col) == \E i \in 1 .. Len(t) : t[i][col] # NULL

\* The sum of a numeric column, NaN skipped.
column_sum(t, col) ==
  SumOver([i \in 1 .. Len(t) |-> IF t[i][col] = NULL THEN 0 ELSE t[i][col]],
          1 .. Len(t))

\* feature_engineering.create_lagged_features: always grouped by Nationality.
fe_create_lagged_features(t, col, lags) ==
  [i \in 1 .. Len(t) |->
     (LagCol(col) :> [k \in lags |-> groupby_shift(t, col, k)[i]]) @@ t[i]]

\* feature_engineering.create_rolling_features (groupby.transform of a
\* rolling mean / std with min_periods=1).
fe_create_rolling_features(t, col, windows) ==
  [i \in 1 .. Len(t) |->
     (RollMeanCol(col) :>
        [w \in windows |-> rolling_mean(t, col, rolling_window(t, i, w))])
     @@ (RollStdCol(col) :>
        [w \in windows |-> rolling_std(t, col, rolling_window(t, i, w))])
     @@ t[i]]

with_index(t) == [i \in 1 .. Len(t) |-> t[i] @@ [index |-> i]]

\* master_df.reindex(original_index).sort_index(): the rows back in the order
\* of their index labels.
reindex_sort_index(t) ==
  [k \in 1 .. Len(t) |->
     LET r == t[CHOOSE i \in 1 .. Len(t) : t[i].index = k]
     IN [c \in (DOMAIN r) \ {"index"} |-> r[c]]]

\* Lines 93-97: sort the broadcast table by Date, shift the column over the
\* whole table, restore the row order.  sorted is the outcome of the sort.
fe_lag_econ_column(sorted, col) ==
  reindex_sort_index(
    [i \in 1 .. Len(sorted) |->
       (LagCol(col) :> [k \in EconLags |-> shift(sorted, col, k)[i]])
       @@ sorted[i]])

InitFE ==
  /\ pc = "fe_time_features"
  /\ \E m \in FEMigrationTables, g \in FEGdeltTables :
       master_df = FESampleFile(m, g)
  /\ df1 = <<>>
  /\ df2 = <<>>
  /\ migration_df = <<>>
  /\ gdelt_processed_event_data = <<>>
  /\ temp_df_for_econ_lags = <<>>
  /\ OtherIdle

FEStep(from, to, table) ==
  /\ pc = from
  /\ pc' = to
  /\ master_df' = table
  /\ UNCHANGED <<df1, df2, migration_df, gdelt_processed_event_data,
                 temp_df_for_econ_lags>>
  /\ UNCHANGED other_vars

FETimeFeatures ==
  FEStep("fe_time_features", "fe_encounter_lags",
         fe_create_time_based_features(master_df))

FELagEncounters ==
  FEStep("fe_encounter_lags", "fe_encounter_rolling",
         fe_create_lagged_features(master_df, "Encounters", EncounterLags))

FERollEncounters ==
  FEStep("fe_encounter_rolling", "fe_gdelt_lags",
         fe_create_rolling_features(master_df, "Encounters", EncounterWindows))

FELagGdelt ==
  FEStep("fe_gdelt_lags", "fe_econ_lags_1",
         IF /\ HasColumn(master_df, "GDELT_EventCount")
            /\ notna_any(master_df, "GDELT_EventCount")
            /\ column_sum(master_df, "GDELT_EventCount") > 0
         THEN fe_create_lagged_features(master_df, "GDELT_EventCount", GdeltLags)
         ELSE master_df)

\* One pass of the loop over us_econ_cols.
FELagEconColumn(n, from, to) ==
  LET col == econ_cols_to_lag[n]
  IN /\ pc = from
     /\ IF HasColumn(master_df, col) /\ notna_any(master_df, col)
        THEN \E sorted \in sort_values_Date(with_index(master_df)) :
               FEStep(from, to, fe_lag_econ_column(sorted, col))
        ELSE FEStep(from, to, master_df)

FELagEcon1 == FELagEconColumn(1, "fe_econ_lags_1", "fe_econ_lags_2")

FELagEcon2 == FELagEconColumn(2, "fe_econ_lags_2", "fe_write")

\* master_df.to_csv('master_dataset_with_features.csv')
FEWrite == FEStep("fe_write", "fe_done", master_df)

NextFE ==
  \/ FETimeFeatures
  \/ FELagEncounters
  \/ FERollEncounters
  \/ FELagGdelt
  \/ FELagEcon1
  \/ FELagEcon2
  \/ FEWrite

SpecFE == InitFE /\ [][NextFE]_vars

(***************************************************************************)
(* estimate_rf_models.py: the script, one action per step.  Its input is   *)
(* the file master_dataset_with_features.csv, which is written by          *)
(* unified_processing_script.py or by feature_engineering.py; the runs of  *)
(* these scripts start here from a migration table that is long enough for *)
(* the 12-month lag.                                                       *)
(***************************************************************************)
\* The largest number of months that a nationality has after its first 12.
MaxTail == 10

HistoryStart == Timestamp(2022, 4, 1)

\* n consecutive months of one nationality, every row with its own count.
History(nat, n) ==
  [i \in 1 .. n |->
     [Nationality |-> nat, Date |-> HistoryStart + (i - 1) * 32,
      Encounters |-> 100 * NatRank(nat) + i]]

\* Combined migration tables, sorted by (Nationality, Date): Mexico alone,
\* Mexico with one month of Romania after its first 12, and a table in which
\* the last Date is held by one of three nationalities only.
RFMigrationTables ==
  { History("Mexico", 12 + k) : k \in 0 .. MaxTail }
  \cup { History("Mexico", 12 + k) \o History("Romania", 13) : k \in 1 .. MaxTail }
  \cup { History("Guatemala", 15) \o History("Mexico", 17) \o History("Romania", 15) }

\* The migration tables of the runs of preprocess_gdelt_sample.py and
\* feature_engineering.py: one nationality, with or without a distance.
RFSampleMigrationTables ==
  { History(nat, 12 + k) : nat \in Nationalities, k \in 0 .. MaxTail }

InitRF ==
  /\ \/ /\ pc = "gdelt"
        /\ migration_df \in RFMigrationTables
        /\ master_df = <<>>
     \/ /\ pc = "fe_time_features"
        /\ migration_df = <<>>
        /\ \E m \in RFSampleMigrationTables, g \in FEGdeltTables :
             master_df = FESampleFile(m, g)
  /\ df1 = <<>>
  /\ df2 = <<>>
  /\ gdelt_processed_event_data = <<>>
  /\ temp_df_for_econ_lags = <<>>
  /\ OtherIdle

unified_vars == <<df1, df2, migration_df, gdelt_processed_event_data,
                  master_df, temp_df_for_econ_lags>>

split_vars == <<train_df, test_df, df_model_t3, train_df_t3, test_df_t3>>

\* A float column read from the file: the value v is the fraction v / 1.
to_float(v) == IF v = NULL THEN NaNFraction ELSE <<v, 1>>

\* pd.read_csv('master_dataset_with_features.csv', parse_dates=['Date']):
\* the distance column, which has decimals after the fill, is a float column.
read_csv(t) ==
  [i \in 1 .. Len(t) |->
     IF "DistanceToUSBORDER_km" \in DOMAIN t[i]
     THEN [t[i] EXCEPT !["DistanceToUSBORDER_km"] = to_float(@)]
     ELSE t[i]]

\* Mutant: the mean counts the rows without a value too.
column_mean_Mut(t, col) ==
  LET I == { i \in 1 .. Len(t) : t[i][col] # NaNFraction }
  IN IF I = {} THEN NaNFraction
     ELSE << SumOver([i \in 1 .. Len(t) |-> t[i][col][1]], I), Len(t) >>

\* df[col].mean(): the mean of the non-null values of a float column, as the
\* fraction <<sum, count>>; NaN when the column has no value.
column_mean(t, col) ==
  LET I == { i \in 1 .. Len(t) : t[i][col] # NaNFraction }
  IN IF I = {} THEN NaNFraction
     ELSE << SumOver([i \in 1 .. Len(t) |-> t[i][col][1]], I), Cardinality(I) >>

\* df[col].fillna(v) on a float column
fillna_float(t, col, v) ==
  [i \in 1 .. Len(t) |->
     IF t[i][col] = NaNFraction THEN [t[i] EXCEPT ![col] = v] ELSE t[i]]

isnull_any_float(t, col) == \E i \in 1 .. Len(t) : t[i][col] = NaNFraction

isnull_all_float(t, col) == \A i \in 1 .. Len(t) : t[i][col] = NaNFraction

isnull_all(t, col) == \A i \in 1 .. Len(t) : t[i][col] = NULL

\* try: df = pd.read_csv('master_dataset_with_features.csv') after the file
\* has been written.
RFLoad ==
  /\ pc \in {"done", "fe_done"}
  /\ df' = read_csv(master_df)
  /\ pc' = "rf_fill_distance"
  /\ UNCHANGED <<aux_vars, temp_df_cleaned, unified_vars, df_cleaned, split_vars, files>>

\* Lines 19-24: the nulls of the distance column get the column's mean, 0
\* when the mean is NaN.
RFFillDistance ==
  /\ pc = "rf_fill_distance"
  /\ df' = IF /\ HasColumn(df, "DistanceToUSBORDER_km")
              /\ isnull_any_float(df, "DistanceToUSBORDER_km")
           THEN LET mean_distance == column_mean(df, "DistanceToUSBORDER_km")
                IN fillna_float(df, "DistanceToUSBORDER_km",
                                IF mean_distance = NaNFraction THEN <<0, 1>>
                                ELSE mean_distance)
           ELSE df
  /\ pc' = "rf_fill_gdelt"
  /\ UNCHANGED <<aux_vars, temp_df_cleaned, unified_vars, df_cleaned, split_vars, files>>

\* Lines 26-27: df['GDELT_EventCount'].fillna(0).astype(float), when the
\* column is there; a count keeps its value as a float.
RFFillGdelt ==
  /\ pc = "rf_fill_gdelt"
  /\ df' = IF HasColumn(df, "GDELT_EventCount")
           THEN fillna(df, "GDELT_EventCount", 0)
           ELSE df
  /\ pc' = "rf_fill_all_nan"
  /\ UNCHANGED <<aux_vars, temp_df_cleaned, unified_vars, df_cleaned, split_vars, files>>

\* Lines 31-36: a column of cols_to_check_for_nan_before_drop that is all
\* NaN is filled with 0.
fill_all_nan_columns(t) ==
  LET d == IF /\ HasColumn(t, "DistanceToUSBORDER_km")
              /\ isnull_all_float(t, "DistanceToUSBORDER_km")
           THEN fillna_float(t, "DistanceToUSBORDER_km", <<0, 1>>) ELSE t
      g == IF HasColumn(d, "GDELT_EventCount") /\ isnull_all(d, "GDELT_EventCount")
           THEN fillna(d, "GDELT_EventCount", 0) ELSE d
      h == IF HasColumn(g, econ_cols_to_lag[1]) /\ isnull_all(g, econ_cols_to_lag[1])
           THEN fillna(g, econ_cols_to_lag[1], 0) ELSE g
  IN IF HasColumn(h, econ_cols_to_lag[2]) /\ isnull_all(h, econ_cols_to_lag[2])
     THEN fillna(h, econ_cols_to_lag[2], 0) ELSE h

RFFillAllNaN ==
  /\ pc = "rf_fill_all_nan"
  /\ df' = fill_all_nan_columns(df)
  /\ pc' = "rf_dropna"
  /\ UNCHANGED <<aux_vars, temp_df_cleaned, unified_vars, df_cleaned, split_vars, files>>

\* The lag and rolling columns of the feature scripts.
LagColumns == { LagCol("Encounters"), LagCol("GDELT_EventCount"),
                LagCol(econ_cols_to_lag[1]), LagCol(econ_cols_to_lag[2]) }

RollColumns == { RollMeanCol("Encounters"), RollStdCol("Encounters") }

\* pd.isna of the value v of column col; the columns <col>_lag_<k> and
\* <col>_roll_..._<w>m are held in one field each.
isna(col, v) ==
  CASE col \in LagColumns -> \E k \in DOMAIN v : v[k] = NULL
    [] col \in RollColumns -> \E w \in DOMAIN v : v[w] = NaNFraction
    [] col = "DistanceToUSBORDER_km" -> v = NaNFraction
    [] col \in {"Nationality", "FIPS_CountryCode"} -> v = NullStr
    [] OTHER -> v = NULL

\* df.dropna(subset=cols): the rows with a value in every column of cols.
dropna(t, cols) ==
  LET Test(r) == \A c \in cols : ~isna(c, r[c])
  IN SelectSeq(t, Test)

Columns(t) == IF t = <<>> THEN {} ELSE DOMAIN t[1]

\* Lines 41-43: the columns with 'lag_', 'roll_std' or 'roll_mean' in their
\* name.
critical_lag_roll_features(t) == Columns(t) \cap (LagColumns \cup RollColumns)

\* Lines 45-46: the rows without a null lag or rolling feature, then
\* dropna(subset=['DistanceToUSBORDER_km', 'GDELT_EventCount']), which raises
\* a KeyError when the table has no column of that name.
RFDropna ==
  /\ pc = "rf_dropna"
  /\ IF {"DistanceToUSBORDER_km", "GDELT_EventCount"} \subseteq Columns(df)
     THEN /\ df_cleaned' = dropna(dropna(df, critical_lag_roll_features(df)),
                                  {"DistanceToUSBORDER_km", "GDELT_EventCount"})
          /\ pc' = "rf_check_empty"
     ELSE /\ df_cleaned' = dropna(df, critical_lag_roll_features(df))
          /\ pc' = "rf_KeyError"
  /\ UNCHANGED <<aux_vars, temp_df_cleaned, unified_vars, df, split_vars, files>>

\* Lines 50-52: if df_cleaned.empty: exit()
RFCheckEmpty ==
  /\ pc = "rf_check_empty"
  /\ pc' = IF df_cleaned = <<>> THEN "rf_exit" ELSE "rf_sort"
  /\ UNCHANGED <<aux_vars, temp_df_cleaned, unified_vars, estimate_vars>>

\* astype('category').cat.codes: the rank of the nationality among the
\* nationalities of the table, from 0.
cat_codes(t) ==
  [i \in 1 .. Len(t) |->
     Cardinality({ NatRank(t[j].Nationality) : j \in 1 .. Len(t) }
                 \cap (0 .. (NatRank(t[i].Nationality) - 1)))]

exclude_cols == {"Encounters", "Nationality", "Date", "FIPS_CountryCode",
                 "Encounters_target_t_plus_3"}

\* Line 56: the feature columns of the cleaned table.
features(t) == Columns(t) \ exclude_cols

\* Lines 54-62: the Nationality_Code column and the sort by Date.
RFSort ==
  /\ pc = "rf_sort"
  /\ df_cleaned' \in sort_values_Date(
        [i \in 1 .. Len(df_cleaned) |->
           ("Nationality_Code" :> cat_codes(df_cleaned)[i]) @@ df_cleaned[i]])
  /\ pc' = "rf_split"
  /\ UNCHANGED <<aux_vars, temp_df_cleaned, unified_vars, df, split_vars, files>>

UniqueDates(t) == { t[i].Date : i \in 1 .. Len(t) }

\* np.random.RandomState(42).permutation(n), as positions from 1, for the
\* table sizes that reach train_test_split.
permutation(n) ==
  CASE n = 1 -> <<1>>
    [] n = 2 -> <<2, 1>>
    [] n = 3 -> <<1, 2, 3>>
    [] n = 4 -> <<2, 4, 1, 3>>
    [] n = 5 -> <<2, 5, 3, 1, 4>>
    [] n = 6 -> <<1, 2, 6, 3, 5, 4>>
    [] n = 7 -> <<1, 2, 6, 3, 5, 4, 7>>
    [] n = 8 -> <<2, 6, 1, 8, 3, 5, 4, 7>>
    [] n = 9 -> <<8, 2, 6, 1, 9, 3, 5, 4, 7>>
    [] n = 10 -> <<9, 2, 6, 1, 8, 3, 10, 5, 4, 7>>
    [] n = 11 -> <<6, 1, 10, 11, 3, 2, 9, 5, 8, 4, 7>>
    [] n = 12 -> <<11, 10, 1, 9, 6, 3, 2, 12, 5, 8, 4, 7>>

\* sklearn train_test_split(X, y, test_size=0.2, random_state=42) and the
\* reconstruction df.loc[X_train.index], df.loc[X_test.index]: the test rows
\* are the first ceil(0.2 n) rows of the permutation, the training rows the
\* rest; a ValueError when the training set would be empty.
train_test_split(t) ==
  LET n == Len(t)
      n_test == (n + 4) \div 5
      n_train == n - n_test
  IN IF n_train = 0
     THEN [error |-> "ValueError", train |-> <<>>, test |-> <<>>]
     ELSE [error |-> "",
           train |-> [k \in 1 .. n_train |-> t[permutation(n)[n_test + k]]],
           test |-> [k \in 1 .. n_test |-> t[permutation(n)[k]]]]

\* Lines 76-80: split_date is the unique Date at index int(0.8 * number of
\* unique Dates); the rows before it train, the rows from it on test.
date_split(t) ==
  LET U == UniqueDates(t)
      split_point_index == (Cardinality(U) * 4) \div 5
      split_date == CHOOSE d \in U :
                       Cardinality({ e \in U : e < d }) = split_point_index
      Before(r) == r.Date < split_date
      After(r) == r.Date >= split_date
  IN [train |-> SelectSeq(t, Before), test |-> SelectSeq(t, After)]

\* Lines 85-87: the first int(0.8 * rows) rows train, the rest test.
row_split(t) ==
  LET split_row_index == (Len(t) * 4) \div 5
  IN [train |-> SubSeq(t, 1, split_row_index),
      test |-> SubSeq(t, split_row_index + 1, Len(t))]

\* Lines 64-92 (and 129-148 for the 3-month model): the split of a table
\* that is sorted by Date.
adaptive_split(t) ==
  IF Cardinality(UniqueDates(t)) < 5 THEN train_test_split(t)
  ELSE LET by_date == date_split(t)
       IN IF by_date.test = <<>> \/ 10 * Len(by_date.test) < Len(t)
          THEN [error |-> ""] @@ row_split(t)
          ELSE [error |-> ""] @@ by_date

RFSplit ==
  /\ pc = "rf_split"
  /\ LET s == adaptive_split(df_cleaned)
     IN /\ train_df' = s.train
        /\ test_df' = s.test
        /\ pc' = IF s.error # "" THEN "rf_ValueError" ELSE "rf_check_split"
  /\ UNCHANGED <<aux_vars, temp_df_cleaned, unified_vars, df, df_cleaned, df_model_t3, train_df_t3,
                 test_df_t3, files>>

\* Lines 97-99: if X_train.empty or X_test.empty: exit()
RFCheckSplit ==
  /\ pc = "rf_check_split"
  /\ pc' = IF train_df = <<>> \/ test_df = <<>> THEN "rf_exit" ELSE "rf_train_t1"
  /\ UNCHANGED <<aux_vars, temp_df_cleaned, unified_vars, estimate_vars>>

\* Line 90: y_train_t1 = train_df['Encounters'], the target that the
\* 1-month model is fitted to at line 106.
y_train_t1 == [i \in 1 .. Len(train_df) |-> train_df[i].Encounters]

\* Lines 103-117: the 1-month model is fitted and saved, the test rows are
\* written with their predictions.
RFTrain_t1 ==
  /\ pc = "rf_train_t1"
  /\ files' = files \cup {"rf_model_t1.joblib", "test_data_with_predictions_t1.csv"}
  /\ pc' = "rf_target_t3"
  /\ UNCHANGED <<aux_vars, temp_df_cleaned, unified_vars, df, df_cleaned, split_vars>>

\* Mutant: the shift ignores the groups.
target_t_plus_3_Mut(t) ==
  [i \in 1 .. Len(t) |->
     IF i + 3 <= Len(t) THEN t[i + 3].Encounters ELSE NULL]

\* Line 122: df_cleaned.groupby('Nationality_Code')['Encounters'].shift(-3),
\* the Encounters of the row three places later in the row's own group.
target_t_plus_3(t) ==
  [i \in 1 .. Len(t) |->
     LET G == { j \in 1 .. Len(t) : t[j].Nationality_Code = t[i].Nationality_Code }
         place(j) == Cardinality({ h \in G : h <= j })
     IN IF place(i) + 3 <= Cardinality(G)
        THEN t[CHOOSE j \in G : place(j) = place(i) + 3].Encounters
        ELSE NULL]

\* Lines 122-123: the target column and the rows of the 3-month model.
RFTarget_t3 ==
  /\ pc = "rf_target_t3"
  /\ LET with_target ==
           [i \in 1 .. Len(df_cleaned) |->
              ("Encounters_target_t_plus_3" :> target_t_plus_3(df_cleaned)[i])
              @@ df_cleaned[i]]
     IN /\ df_cleaned' = with_target
        /\ df_model_t3' = dropna(with_target,
                                 {"Encounters_target_t_plus_3"}
                                 \cup features(df_cleaned))
  /\ pc' = "rf_split_t3"
  /\ UNCHANGED <<aux_vars, temp_df_cleaned, unified_vars, df, train_df, test_df, train_df_t3, test_df_t3,
                 files>>

\* Lines 125-153: the 3-month model is skipped without rows or with fewer
\* than 2 unique Dates; else the rows are sorted by Date and split.
RFSplit_t3 ==
  /\ pc = "rf_split_t3"
  /\ IF df_model_t3 = <<>> \/ Cardinality(UniqueDates(df_model_t3)) < 2
     THEN /\ pc' = "rf_done"
          /\ UNCHANGED <<df_model_t3, train_df_t3, test_df_t3>>
     ELSE \E sorted \in sort_values_Date(df_model_t3) :
            LET s == adaptive_split(sorted)
            IN /\ df_model_t3' = sorted
               /\ train_df_t3' = s.train
               /\ test_df_t3' = s.test
               /\ pc' = IF s.error # "" THEN "rf_ValueError" ELSE "rf_train_t3"
  /\ UNCHANGED <<aux_vars, temp_df_cleaned, unified_vars, df, df_cleaned, train_df, test_df, files>>

\* Lines 158-170: skipped when a set is empty; else the 3-month model is
\* fitted and saved, the test rows are written with their predictions.
RFTrain_t3 ==
  /\ pc = "rf_train_t3"
  /\ files' = IF train_df_t3 = <<>> \/ test_df_t3 = <<>> THEN files
              ELSE files \cup {"rf_model_t3.joblib",
                               "test_data_with_predictions_t3.csv"}
  /\ pc' = "rf_done"
  /\ UNCHANGED <<aux_vars, temp_df_cleaned, unified_vars, df, df_cleaned, split_vars>>

\* perform_forecasting.py, lines 69-131, run after estimate_rf_models.py
\* has ended: with the master file and a saved model, the cleaning of lines
\* 90-99 is applied again to the file; its last dropna raises a KeyError
\* when the table has no column of that name.
perform_forecasting ==
  /\ pc \in {"rf_done", "rf_exit", "rf_KeyError", "rf_ValueError"}
  /\ IF "rf_model_t1.joblib" \in files \/ "rf_model_t3.joblib" \in files
     THEN LET master == read_csv(master_df)
              mean_dist == column_mean(master, "DistanceToUSBORDER_km")
              d == IF /\ HasColumn(master, "DistanceToUSBORDER_km")
                      /\ isnull_any_float(master, "DistanceToUSBORDER_km")
                   THEN fillna_float(master, "DistanceToUSBORDER_km",
                                     IF mean_dist = NaNFraction THEN <<0, 1>>
                                     ELSE mean_dist)
                   ELSE master
              g == IF HasColumn(d, "GDELT_EventCount")
                   THEN fillna(d, "GDELT_EventCount", 0) ELSE d
              kept == dropna(g, critical_lag_roll_features(g))
          IN IF {"DistanceToUSBORDER_km", "GDELT_EventCount"} \subseteq Columns(g)
             THEN /\ temp_df_cleaned' =
                       dropna(kept, {"DistanceToUSBORDER_km", "GDELT_EventCount"})
                  /\ pc' = "pf_done"
             ELSE /\ temp_df_cleaned' = kept
                  /\ pc' = "pf_KeyError"
     ELSE /\ temp_df_cleaned' = <<>>
          /\ pc' = "pf_done"
  /\ UNCHANGED <<aux_vars, unified_vars, estimate_vars>>

NextRF ==
  \/ FetchGdelt
  \/ MergeDistances
  \/ MergeEcon
  \/ MergeGdelt
  \/ FillGdelt
  \/ SetGdeltZero
  \/ TimeFeatures
  \/ LagEncounters
  \/ RollEncounters
  \/ LagGdelt
  \/ LagEcon
  \/ MergeEconLags
  \/ WriteMaster
  \/ FETimeFeatures
  \/ FELagEncounters
  \/ FERollEncounters
  \/ FELagGdelt
  \/ FELagEcon1
  \/ FELagEcon2
  \/ FEWrite
  \/ RFLoad
  \/ RFFillDistance
  \/ RFFillGdelt
  \/ RFFillAllNaN
  \/ RFDropna
  \/ RFCheckEmpty
  \/ RFSort
  \/ RFSplit
  \/ RFCheckSplit
  \/ RFTrain_t1
  \/ RFTarget_t3
  \/ RFSplit_t3
  \/ RFTrain_t3
  \/ perform_forecasting

SpecRF == InitRF /\ [][NextRF]_vars

(***************************************************************************)
(* Date labels.  A label (str) is a sequence of characters; NaT is NULL.   *)
(* pd.to_datetime(s, format=f) compiles f to a regular expression that is  *)
(* matched case-insensitively at the start of s and has to consume all of  *)
(* s: %b is an abbreviated month name, a blank of the format is \s+, %Y is  *)
(* four digits, %y is two digits (00-68 -> 20yy, 69-99 -> 19yy).  It raises *)
(* ValueError when s does not match or the date is out of the range of a   *)
(* Timestamp.                                                              *)
(***************************************************************************)
NaT == NULL

\* The result of a call that raised ValueError.
ValueError == -2

UpperCase == << "A", "B", "C", "D", "E", "F", "G", "H", "I", "J", "K", "L", "M",
                "N", "O", "P", "Q", "R", "S", "T", "U", "V", "W", "X", "Y", "Z" >>

LowerCase == << "a", "b", "c", "d", "e", "f", "g", "h", "i", "j", "k", "l", "m",
                "n", "o", "p", "q", "r", "s", "t", "u", "v", "w", "x", "y", "z" >>

Digits == << "0", "1", "2", "3", "4", "5", "6", "7", "8", "9" >>

\* str.lower() of one character.
lower(c) ==
  IF \E i \in 1 .. 26 : UpperCase[i] = c
  THEN LowerCase[CHOOSE i \in 1 .. 26 : UpperCase[i] = c]
  ELSE c

isdigit(c) == \E i \in 1 .. 10 : Digits[i] = c

isspace(c) == c = " "

DigitValue(c) == (CHOOSE i \in 1 .. 10 : Digits[i] = c) - 1

\* The number that a sequence of digits denotes.
RECURSIVE DecimalValue(_)
DecimalValue(cs) ==
  IF cs = <<>> THEN 0
  ELSE 10 * DecimalValue(SubSeq(cs, 1, Len(cs) - 1)) + DigitValue(cs[Len(cs)])

\* str(n) of a natural number.
RECURSIVE str_int(_)
str_int(n) ==
  IF n < 10 THEN << Digits[n + 1] >>
  ELSE str_int(n \div 10) \o << Digits[(n % 10) + 1] >>

\* calendar.month_abbr, lower case, as the regular expression of %b has it.
month_abbr ==
  << <<"j", "a", "n">>, <<"f", "e", "b">>, <<"m", "a", "r">>, <<"a", "p", "r">>,
     <<"m", "a", "y">>, <<"j", "u", "n">>, <<"j", "u", "l">>, <<"a", "u", "g">>,
     <<"s", "e", "p">>, <<"o", "c", "t">>, <<"n", "o", "v">>, <<"d", "e", "c">> >>

\* The month that %b finds at the start of s, 0 when there is none.
match_b(s) ==
  IF Len(s) < 3 THEN 0
  ELSE LET head == << lower(s[1]), lower(s[2]), lower(s[3]) >>
       IN IF \E m \in 1 .. 12 : month_abbr[m] = head
          THEN CHOOSE m \in 1 .. 12 : month_abbr[m] = head
          ELSE 0

\* The number of blanks at the start of s.
RECURSIVE leading_spaces(_)
leading_spaces(s) ==
  IF s # <<>> /\ isspace(s[1]) THEN 1 + leading_spaces(Tail(s)) ELSE 0

all_digits(s) == \A i \in 1 .. Len(s) : isdigit(s[i])

\* Timestamp.min is 1677-09-21, Timestamp.max is 2262-04-11.
in_bounds(ts) == Timestamp(1677, 10, 1) <= ts /\ ts <= Timestamp(2262, 4, 1)

\* pd.to_datetime(s, format='%b %Y')
to_datetime_b_Y(s) ==
  LET m == match_b(s)
      rest == SubSeq(s, 4, Len(s))
      k == leading_spaces(rest)
      year == SubSeq(rest, k + 1, Len(rest))
  IN IF m = 0 \/ k = 0 \/ Len(year) # 4 \/ ~all_digits(year) THEN ValueError
     ELSE IF ~in_bounds(Timestamp(DecimalValue(year), m, 1)) THEN ValueError
     ELSE Timestamp(DecimalValue(year), m, 1)

\* The century that %y gives a two-digit year.
year_of_y(yy) == IF yy <= 68 THEN 2000 + yy ELSE 1900 + yy

\* pd.to_datetime(s, format='%b-%y')
to_datetime_b_y(s) ==
  LET m == match_b(s)
      rest == SubSeq(s, 4, Len(s))
      year == SubSeq(rest, 2, Len(rest))
  IN IF m = 0 \/ rest = <<>> THEN ValueError
     ELSE IF rest[1] # "-" \/ Len(year) # 2 \/ ~all_digits(year) THEN ValueError
     ELSE Timestamp(year_of_y(DecimalValue(year)), m, 1)

\* preprocess_migration_data.py, parse_date (lines 34-43).
parse_date(s) ==
  IF to_datetime_b_Y(s) # ValueError THEN to_datetime_b_Y(s)
  ELSE IF to_datetime_b_y(s) # ValueError THEN to_datetime_b_y(s)
  ELSE NaT

\* s.split('-'): the pieces of s between its '-' characters.
RECURSIVE split_dash(_)
split_dash(s) ==
  IF \A i \in 1 .. Len(s) : s[i] # "-" THEN << s >>
  ELSE LET i == CHOOSE j \in 1 .. Len(s) :
                  s[j] = "-" /\ \A h \in 1 .. (j - 1) : s[h] # "-"
       IN << SubSeq(s, 1, i - 1) >> \o split_dash(SubSeq(s, i + 1, Len(s)))

\* s.strip(): s without the blanks at its two ends.
RECURSIVE strip(_)
strip(s) ==
  IF s # <<>> /\ isspace(s[1]) THEN strip(Tail(s))
  ELSE IF s # <<>> /\ isspace(s[Len(s)]) THEN strip(SubSeq(s, 1, Len(s) - 1))
  ELSE s

\* int(s) of a string that starts with a digit: blanks at the ends are
\* ignored, anything but digits between them raises ValueError.
int_str(s) ==
  IF strip(s) = <<>> \/ ~all_digits(strip(s)) THEN ValueError
  ELSE DecimalValue(strip(s))

\* unified_processing_script.py and preprocess_gdelt_sample.py,
\* parse_date_flexible (lines 56-65, 51-60): the second try builds
\* "<month> 20<yy>" and parses it with '%b %Y'; unpacking more than two
\* pieces and int() of a non-number raise ValueError, which gives NaT.
parse_date_flexible(s) ==
  LET parts == split_dash(s)
  IN IF to_datetime_b_Y(s) # ValueError THEN to_datetime_b_Y(s)
     ELSE IF Len(parts) >= 2 /\ Len(parts[2]) = 2
          THEN IF Len(parts) # 2 THEN NaT
               ELSE IF int_str(<<"2", "0">> \o parts[2]) = ValueError THEN NaT
               ELSE LET year_full == int_str(<<"2", "0">> \o parts[2])
                        built == parts[1] \o <<" ">> \o str_int(year_full)
                    IN IF to_datetime_b_Y(built) = ValueError THEN NaT
                       ELSE to_datetime_b_Y(built)
     ELSE IF to_datetime_b_y(s) = ValueError THEN NaT
     ELSE to_datetime_b_y(s)

MonthParts ==
  { <<"J","a","n">>, <<"F","e","b">>, <<"M","a","r">>, <<"A","p","r">>,
    <<"M","a","y">>, <<"J","u","n">>, <<"J","u","l">>, <<"A","u","g">>,
    <<"S","e","p">>, <<"O","c","t">>, <<"N","o","v">>, <<"D","e","c">>,
    <<"o","c","t">>, <<"O","c","t","o","b","e","r">>,
    <<"J","a","n","u","a","r","y">>, <<"X","y","z">>, <<>> }

Separators == { <<" ">>, <<"-">>, <<" ", " ">>, <<" ", "-">>, <<"-", "-">>, <<>> }

\* Every two-digit year, some four-digit years, and parts that are no year.
YearParts ==
  { << Digits[a + 1], Digits[b + 1] >> : a, b \in 0 .. 9 }
    \cup { <<"2","0","1","9">>, <<"2","0","2","4">>, <<"1","9","8","5">>,
           <<"1","5","0","0">>, <<"0","0","0","0">>, <<"2","0","1","9","1">>,
           <<"1"," ">>, <<"a","b">>, <<"1">>, <<>> }

\* The column labels of a sheet: month, separator, year.
DateLabels ==
  { m \o p \o y : m \in MonthParts, p \in Separators, y \in YearParts }

InitParse ==
  /\ pc = "parse"
  /\ df1 = <<>>
  /\ df2 = <<>>
  /\ migration_df = <<>>
  /\ gdelt_processed_event_data = <<>>
  /\ master_df = <<>>
  /\ temp_df_for_econ_lags = <<>>
  /\ EstimateIdle
  /\ temp_df_cleaned = <<>>
  /\ StageIdle
  /\ IngestIdle
  /\ CleanIdle
  /\ ForecastIdle
  /\ LandIdle
  /\ DownloadIdle
  /\ ArrivalsIdle
  /\ date_str \in DateLabels
  /\ parse_date_result = NULL
  /\ parse_date_flexible_result = NULL

\* df_melted['DateStr'].apply(parse_date) and .apply(parse_date_flexible) on
\* one label.
ApplyParse ==
  /\ pc = "parse"
  /\ parse_date_result' = parse_date(date_str)
  /\ parse_date_flexible_result' = parse_date_flexible(date_str)
  /\ pc' = "parsed"
  /\ UNCHANGED <<date_str, unified_vars, estimate_vars, temp_df_cleaned,
                 stage_vars, ingest_vars, clean_vars, forecast_vars,
                 land_vars, download_vars, arrivals_vars>>

NextParse == ApplyParse

SpecParse == InitParse /\ [][NextParse]_vars

(***************************************************************************)
(* The two sheets from their cells.  A downloaded sheet is the table that  *)
(* melt makes of it: one row per cell, with the nationality of the cell's  *)
(* row, the label of its column (DateStr) and its count.  Both ingestion   *)
(* scripts, unified_processing_script.py and preprocess_migration_data.py, *)
(* are run on the same two sheets.  The counts of the 2019-present sheet   *)
(* differ from the counts of the 2013-present sheet, so that a row of a    *)
(* combined table shows the sheet it was taken from.                       *)
(***************************************************************************)
SheetLabels ==
  { <<"J","u","n"," ","2","0","2","4">>, <<"J","u","l"," ","2","0","2","4">>,
    <<"J","u","n","-","2","4">>, <<"F","Y","2","4">> }

\* The first column of a sheet: a country or the row of the totals.
SheetNationalities == {"Mexico", "Total"}

Values2019 == {2}

Values2013 == {1}

RawSheets(n, values) ==
  SeqsUpTo([Nationality : SheetNationalities, DateStr : SheetLabels,
            Encounters : values], n)

\* The mask of lines 72 and 78 of unified_processing_script.py and the
\* filter of lines 51-52 of preprocess_migration_data.py: the rows of totals
\* are taken out.
is_summary_row(nationality) == nationality = "Total"

\* df_melted['Date'] = df_melted['DateStr'].apply(parse_date_flexible)
apply_parse_date_flexible(raw) ==
  [i \in 1 .. Len(raw) |->
     [Nationality |-> raw[i].Nationality,
      Date |-> parse_date_flexible(raw[i].DateStr),
      Encounters |-> raw[i].Encounters]]

\* df_melted['Date'] = df_melted['DateStr'].apply(parse_date)
apply_parse_date(raw) ==
  [i \in 1 .. Len(raw) |->
     [Nationality |-> raw[i].Nationality,
      Date |-> parse_date(raw[i].DateStr),
      Encounters |-> raw[i].Encounters]]

\* dropna(subset=['Date']) and the filter of the rows of totals.
valid_rows(t) ==
  LET Keep(r) == r.Date # NaT /\ ~is_summary_row(r.Nationality)
  IN SelectSeq(t, Keep)

\* Mutant: the first day of July 2024 passes the filter.
before_2024_07_Mut(t) ==
  LET Keep(r) == r.Date <= Timestamp(2024, 7, 1) IN SelectSeq(t, Keep)

\* unified_processing_script.py line 81:
\* df_melted[df_melted['Date'] < pd.to_datetime('2024-07-01')]
before_2024_07(t) ==
  LET Keep(r) == r.Date < Timestamp(2024, 7, 1) IN SelectSeq(t, Keep)

\* unified_processing_script.py, preprocess_single_sheet (lines 67-82).
preprocess_single_sheet(raw, is_problematic_date_range) ==
  LET df_melted == valid_rows(apply_parse_date_flexible(raw))
  IN sort_values_Nationality_Date(
       IF is_problematic_date_range THEN before_2024_07(df_melted)
       ELSE df_melted)

\* preprocess_migration_data.py lines 62-63:
\* df_melted[df_melted['Date'] <= current_cutoff], the cutoff is 2024-06-01.
upto_current_cutoff(t) ==
  LET Keep(r) == r.Date <= Timestamp(2024, 6, 1) IN SelectSeq(t, Keep)

\* preprocess_migration_data.py, preprocess_spreadsheet (lines 3-67).
preprocess_spreadsheet(raw, date_range_problematic) ==
  LET df_melted == valid_rows(apply_parse_date(raw))
  IN sort_values_Nationality_Date(
       IF date_range_problematic THEN upto_current_cutoff(df_melted)
       ELSE df_melted)

\* preprocess_migration_data.py lines 79-84: Nationality + '_' + YearMonth.
MergeKey(r) == <<r.Nationality, to_period_M(r.Date)>>

\* preprocess_migration_data.py lines 77-99: the 2013-present table and the
\* rows of the 2019-present table whose MergeKey it does not have; one table
\* alone when the other is empty.
combine_sheets(t2013, t2019) ==
  LET keys2013 == { MergeKey(t2013[i]) : i \in 1 .. Len(t2013) }
      IsNew(r) == MergeKey(r) \notin keys2013
      new_records_df == SelectSeq(t2019, IsNew)
  IN IF t2013 # <<>> /\ t2019 # <<>> THEN t2013 \o new_records_df
     ELSE IF t2019 # <<>> THEN t2019
     ELSE IF t2013 # <<>> THEN t2013
     ELSE <<>>

InitIngest ==
  /\ pc = "ingest"
  /\ sheet_2019 \in RawSheets(Max2019Rows, Values2019)
  /\ sheet_2013 \in RawSheets(Max2013Rows, Values2013)
  /\ df_2019_present = <<>>
  /\ df_2013_present = <<>>
  /\ combined_df = <<>>
  /\ df1 = <<>>
  /\ df2 = <<>>
  /\ migration_df = <<>>
  /\ gdelt_processed_event_data = <<>>
  /\ master_df = <<>>
  /\ temp_df_for_econ_lags = <<>>
  /\ EstimateIdle
  /\ temp_df_cleaned = <<>>
  /\ StageIdle
  /\ ParseIdle
  /\ CleanIdle
  /\ ForecastIdle
  /\ LandIdle
  /\ DownloadIdle
  /\ ArrivalsIdle

\* unified_processing_script.py lines 84-85: the two calls of
\* preprocess_single_sheet.
PreprocessSheets ==
  /\ pc = "ingest"
  /\ df1' = preprocess_single_sheet(sheet_2019, TRUE)
  /\ df2' = preprocess_single_sheet(sheet_2013, FALSE)
  /\ pc' = "start"
  /\ UNCHANGED <<migration_df, gdelt_processed_event_data, master_df,
                 temp_df_for_econ_lags>>
  /\ UNCHANGED other_vars

\* preprocess_migration_data.py lines 70-71: the two calls of
\* preprocess_spreadsheet.
PMPreprocess ==
  /\ pc = "preprocessed"
  /\ df_2019_present' = preprocess_spreadsheet(sheet_2019, TRUE)
  /\ df_2013_present' = preprocess_spreadsheet(sheet_2013, FALSE)
  /\ pc' = "pm_combine"
  /\ UNCHANGED <<sheet_2019, sheet_2013, combined_df>>
  /\ UNCHANGED <<unified_vars, estimate_vars, temp_df_cleaned, stage_vars,
                 parse_vars, clean_vars, forecast_vars, land_vars,
                 download_vars, arrivals_vars>>

\* preprocess_migration_data.py lines 77-111: the combination, and when it
\* is not empty the sort by (Nationality, Date) and the write.
PMCombine ==
  /\ pc = "pm_combine"
  /\ LET combined == combine_sheets(df_2013_present, df_2019_present)
     IN /\ combined_df' = sort_values_Nationality_Date(combined)
        /\ files' = IF combined # <<>>
                    THEN files \cup {"us_border_encounters_monthly.csv"}
                    ELSE files
  /\ pc' = "pm_done"
  /\ UNCHANGED <<sheet_2019, sheet_2013, df_2019_present, df_2013_present>>
  /\ UNCHANGED <<unified_vars, df, df_cleaned, split_vars, temp_df_cleaned,
                 stage_vars, parse_vars, clean_vars, forecast_vars,
                 land_vars, download_vars, arrivals_vars>>

NextIngest ==
  \/ PreprocessSheets
  \/ preprocess_main_migration_data
  \/ PMPreprocess
  \/ PMCombine

SpecIngest == InitIngest /\ [][NextIngest]_vars

(***************************************************************************)
(* The scripts as stages that hand files to each other.  One action is one *)
(* run of a script, from its first line to its exit; the directory (files) *)
(* starts empty and no script deletes an artifact.  What a run downloads   *)
(* or computes is an input of the action.                                  *)
(***************************************************************************)
\* The artifacts that estimate_rf_models.py writes.
RFArtifacts ==
  { "rf_model_t1.joblib", "test_data_with_predictions_t1.csv",
    "rf_model_t3.joblib", "test_data_with_predictions_t3.csv" }

\* The variables that hold tables and labels: no stage action changes them.
table_vars == <<pc, unified_vars, df, df_cleaned, split_vars, temp_df_cleaned,
                ingest_vars, parse_vars, clean_vars, forecast_vars,
                land_vars, download_vars, arrivals_vars>>

InitStages ==
  /\ pc = "stages"
  /\ df1 = <<>>
  /\ df2 = <<>>
  /\ migration_df = <<>>
  /\ gdelt_processed_event_data = <<>>
  /\ master_df = <<>>
  /\ temp_df_for_econ_lags = <<>>
  /\ OtherIdle

\* The run of the script s has written the artifacts W; it reached its last
\* line when ended is true.
RunStage(s, W, ended) ==
  /\ stage' = s
  /\ files' = files \cup W
  /\ completed' = IF ended THEN completed \cup {s} ELSE completed
  /\ UNCHANGED table_vars

\* extract_us_mexico_border.py: the shapefile is read in a try (exit when it
\* is not there), a missing country or border raises; the two files are
\* written at the end.
Stage_extract_us_mexico_border ==
  \E shapefile_ok \in BOOLEAN :
    RunStage("extract_us_mexico_border",
             IF shapefile_ok THEN {"us_mexico_border.gpkg", "world_countries.gpkg"}
             ELSE {},
             shapefile_ok)

\* calculate_distances.py, lines 8-9: the two reads, not in a try.
DistancesLoadOk == {"world_countries.gpkg", "us_mexico_border.gpkg"} \subseteq files

\* calculate_distances.py: a country whose distance fails gets NaN; the table
\* is written at line 73.
Stage_calculate_distances ==
  RunStage("calculate_distances",
           IF DistancesLoadOk THEN {"country_distances_and_continents.csv"} ELSE {},
           DistancesLoadOk)

\* determine_land_route.py, lines 5 and 8: the two reads, not in a try.
LandRouteLoadOk ==
  {"country_distances_and_continents.csv", "world_countries.gpkg"} \subseteq files

\* determine_land_route.py: the table is written at line 189.
Stage_determine_land_route ==
  RunStage("determine_land_route",
           IF LandRouteLoadOk THEN {"country_final_data.csv"} ELSE {},
           LandRouteLoadOk)

\* create_final_dataset.py, lines 5-12: the read in a try, exit() on
\* FileNotFoundError.
FinalLoadOk == "country_final_data.csv" \in files

\* create_final_dataset.py: the file of determine_land_route.py has the four
\* required columns; the final table is written at line 45.
Stage_create_final_dataset ==
  RunStage("create_final_dataset",
           IF FinalLoadOk THEN {"country_distances_to_us_border.csv"} ELSE {},
           FinalLoadOk)

\* preprocess_gdelt_sample.py: the placeholder tables are always written,
\* the migration table and the sample master file when the migration table
\* is not empty, the GDELT sample when it is not empty.
Stage_preprocess_gdelt_sample ==
  \E migration_ok, gdelt_ok \in BOOLEAN :
    RunStage("preprocess_gdelt_sample",
             {"country_distances.csv", "us_econ_monthly.csv"}
               \cup (IF migration_ok
                     THEN {"us_border_encounters_monthly.csv",
                           "master_dataset_final_sample.csv"}
                     ELSE {})
               \cup (IF gdelt_ok
                     THEN {"gdelt_violence_events_daily_20230101.csv"}
                     ELSE {}),
             TRUE)

\* unified_processing_script.py: exit() at line 191 with an empty migration
\* table, else every table is written, the master table at line 241.
Stage_unified_processing_script ==
  \E migration_ok, gdelt_ok \in BOOLEAN :
    RunStage("unified_processing_script",
             IF ~migration_ok THEN {}
             ELSE {"us_border_encounters_monthly.csv", "country_distances.csv",
                   "us_econ_monthly.csv", "master_dataset_with_features.csv"}
                    \cup (IF gdelt_ok
                          THEN {"gdelt_violence_events_daily_20230101.csv"}
                          ELSE {}),
             migration_ok)

\* feature_engineering.py, lines 41-46: the read in a try, exit() on
\* FileNotFoundError.
FELoadOk_Mut == TRUE

FELoadOk == "master_dataset_final_sample.csv" \in files

\* feature_engineering.py: the table is written at line 111.
Stage_feature_engineering ==
  RunStage("feature_engineering",
           IF FELoadOk THEN {"master_dataset_with_features.csv"} ELSE {},
           FELoadOk)

\* estimate_rf_models.py, lines 9-14: the read in a try, exit() on
\* FileNotFoundError.
RFLoadOk == "master_dataset_with_features.csv" \in files

\* estimate_rf_models.py: it stops before the first model (exit or error),
\* or writes the 1-month model and skips the 3-month model, or writes both.
Stage_estimate_rf_models ==
  \E outcome \in {"stopped", "t1", "t1_t3"} :
    RunStage("estimate_rf_models",
             IF ~RFLoadOk \/ outcome = "stopped" THEN {}
             ELSE IF outcome = "t1"
                  THEN {"rf_model_t1.joblib", "test_data_with_predictions_t1.csv"}
                  ELSE RFArtifacts,
             RFLoadOk /\ outcome # "stopped")

\* perform_forecasting.py: every load is in a try, nothing is written.
Stage_perform_forecasting ==
  RunStage("perform_forecasting", {}, TRUE)

NextStages ==
  \/ Stage_extract_us_mexico_border
  \/ Stage_calculate_distances
  \/ Stage_determine_land_route
  \/ Stage_create_final_dataset
  \/ Stage_preprocess_gdelt_sample
  \/ Stage_unified_processing_script
  \/ Stage_feature_engineering
  \/ Stage_estimate_rf_models
  \/ Stage_perform_forecasting

SpecStages == InitStages /\ [][NextStages]_vars

(***************************************************************************)
(* Properties.                                                             *)
(***************************************************************************)
Rows(t) == { t[i] : i \in 1 .. Len(t) }

KeyOf(r) == <<r.Nationality, r.Date>>

Keys(t) == { KeyOf(t[i]) : i \in 1 .. Len(t) }

\* Positions of the scripts after the named step has run.
AfterJoins == {"merge_econ", "merge_gdelt", "fill_gdelt", "time_features",
               "encounter_lags", "encounter_rolling", "gdelt_lags",
               "econ_lags", "merge_econ_lags", "write", "done"}

AfterTimeFeatures == {"encounter_lags", "encounter_rolling", "gdelt_lags",
                      "econ_lags", "merge_econ_lags", "write", "done",
                      "fe_encounter_lags", "fe_encounter_rolling",
                      "fe_gdelt_lags", "fe_econ_lags_1", "fe_econ_lags_2",
                      "fe_write", "fe_done"}

AfterEncounterLags == AfterTimeFeatures \ {"encounter_lags", "fe_encounter_lags"}

AfterEncounterRolling ==
  AfterEncounterLags \ {"encounter_rolling", "fe_encounter_rolling"}

\* C1: for every (Nationality, Date) key that is in both sheets with
\* different Encounters values, the row kept in the combined table carries a
\* value that the 2019-present sheet (df1) has for that key.
C1_PrimarySourceWins ==
  (pc = "preprocessed" /\ migration_df # <<>>) =>
    \A r \in Rows(migration_df) :
       LET v1 == { a.Encounters : a \in { x \in Rows(df1) : KeyOf(x) = KeyOf(r) } }
           v2 == { b.Encounters : b \in { x \in Rows(df2) : KeyOf(x) = KeyOf(r) } }
       IN (v1 # {} /\ v2 # {} /\ v1 # v2) => r.Encounters \in v1

\* C2: the combined migration table has exactly one row per (Nationality,
\* Date) key of the two sheets, and the fused table keeps exactly these rows,
\* in the same order, through every left join (distance, economic data,
\* GDELT, lagged economic features).
C2_OneRowPerObservation ==
  /\ (pc = "preprocessed" /\ migration_df # <<>>) =>
        Keys(migration_df) = Keys(df1) \cup Keys(df2)
  /\ pc # "start" => HasUniqueKeys(migration_df)
  /\ pc \in AfterJoins =>
        /\ Len(master_df) = Len(migration_df)
        /\ \A i \in 1 .. Len(master_df) :
              KeyOf(master_df[i]) = KeyOf(migration_df[i])

\* The fused table is written with a row that matched the distance table,
\* a row that did not, a row with a GDELT count, a row inside and a row
\* outside the months of the economic table.
C2_Witness ==
  /\ pc = "done"
  /\ \E r \in Rows(master_df) : r.DistanceToUSBORDER_km = NULL
  /\ \E r \in Rows(master_df) : r.DistanceToUSBORDER_km # NULL
  /\ \E r \in Rows(master_df) : r.GDELT_EventCount > 0
  /\ \E r \in Rows(master_df) : r.US_Hospitality_JobOpenings = NULL
  /\ \E r \in Rows(master_df) : r.US_Hospitality_JobOpenings # NULL

\* The lag-k value that the claim expects at row i: the value of col at the
\* k-th earlier row of the same nationality, null when there are fewer than k.
ExpectedGroupLag(t, col, i, k) ==
  LET prev == { j \in 1 .. (i - 1) : t[j].Nationality = t[i].Nationality }
  IN IF Cardinality(prev) < k THEN NULL
     ELSE t[CHOOSE j \in prev : Cardinality({ h \in prev : h > j }) = k - 1][col]

\* C3: for every row and every lag k, Encounters_lag_k is the Encounters
\* value of the k-th earlier row of the same nationality (null for the first
\* k rows of the nationality), also with interleaved nationalities; the
\* series 10, 20, 30, 40, 50 gets the lag-1 column null, 10, 20, 30, 40.
C3_LagWithinGroup ==
  pc \in AfterEncounterLags =>
    /\ \A i \in 1 .. Len(master_df) : \A k \in EncounterLags :
          master_df[i]["Encounters_lag"][k] =
             ExpectedGroupLag(master_df, "Encounters", i, k)
    /\ Project(master_df, {"Nationality", "Date", "Encounters"}) = ExampleSingle =>
          [i \in 1 .. 5 |-> master_df[i]["Encounters_lag"][1]]
             = <<NULL, 10, 20, 30, 40>>

\* The features are written for a table in which a row follows a row of
\* another nationality and still has a lag-1 value.
C3_Witness ==
  /\ pc = "fe_done"
  /\ \E i \in 2 .. Len(master_df) :
        /\ master_df[i - 1].Nationality # master_df[i].Nationality
        /\ master_df[i]["Encounters_lag"][1] # NULL
        /\ master_df[i]["Encounters_lag"][2] # NULL

\* The value of col at the k-th earlier distinct Date of the table.
ExpectedDateLag(t, col, i, k) ==
  LET earlier == { t[j].Date : j \in { h \in 1 .. Len(t) : t[h].Date < t[i].Date } }
  IN IF Cardinality(earlier) < k THEN NULL
     ELSE LET d == CHOOSE e \in earlier :
                      Cardinality({ f \in earlier : f > e }) = k - 1
          IN t[CHOOSE j \in 1 .. Len(t) : t[j].Date = d][col]

\* C4: in the table written by unified_processing_script.py, for each
\* economic indicator and each lag k in 1..3, the lagged value of a row is
\* the indicator's value at the k-th earlier distinct Date of the table, null
\* for the first k distinct Dates; so rows that share a Date agree.
C4_EconLagOnGlobalSeries ==
  pc \in {"write", "done"} =>
    \A i \in 1 .. Len(master_df) : \A c \in 1 .. Len(econ_cols_to_lag) :
       \A k \in EconLags :
          /\ master_df[i][LagCol(econ_cols_to_lag[c])][k] =
                ExpectedDateLag(master_df, econ_cols_to_lag[c], i, k)
          /\ \A j \in 1 .. Len(master_df) :
                master_df[j].Date = master_df[i].Date =>
                   master_df[j][LagCol(econ_cols_to_lag[c])][k] =
                      master_df[i][LagCol(econ_cols_to_lag[c])][k]

\* Two rows of the written table share a Date and carry a lag-1 value.
C4_Witness ==
  /\ pc = "done"
  /\ \E i, j \in 1 .. Len(master_df) :
        /\ i # j
        /\ master_df[i].Date = master_df[j].Date
        /\ master_df[i]["US_Hospitality_JobOpenings_lag"][1] # NULL
        /\ master_df[i]["US_Construction_JobOpenings_lag"][1] # NULL

\* The value that the table holds for an economic indicator in a month (a
\* period); null when the table has no row of that month.
EconValueAt(t, col, period) ==
  LET hit == { j \in 1 .. Len(t) : to_period_M(t[j].Date) = period }
  IN IF hit = {} THEN NULL ELSE t[CHOOSE j \in hit : TRUE][col]

\* C5: in the table written by feature_engineering.py the lag-k feature of
\* an economic indicator is, in every row, the indicator's value k months
\* before the row's month, the same for all nationalities of a month.
C5_EconLagIsKMonthsBefore ==
  pc = "fe_done" =>
    \A i \in 1 .. Len(master_df) : \A c \in 1 .. Len(econ_cols_to_lag) :
       HasColumn(master_df, LagCol(econ_cols_to_lag[c])) =>
          \A k \in EconLags :
             master_df[i][LagCol(econ_cols_to_lag[c])][k] =
                EconValueAt(master_df, econ_cols_to_lag[c],
                            to_period_M(master_df[i].Date) - k)

\* C6: TimeIndex is the number of months between the earliest Date of the
\* table and the row's Date.
C6_TimeIndexFromEarliestDate ==
  pc \in AfterTimeFeatures =>
    \A i \in 1 .. Len(master_df) :
       master_df[i].TimeIndex =
          to_period_M(master_df[i].Date)
          - to_period_M(MinOf({ master_df[j].Date : j \in 1 .. Len(master_df) }))

\* C7: the rolling mean and the rolling std of Encounters are non-null in
\* every row, for every window.
C7_NoNullRollingFeature ==
  pc \in AfterEncounterRolling =>
    \A i \in 1 .. Len(master_df) : \A w \in EncounterWindows :
       /\ master_df[i]["Encounters_roll_mean"][w] # NaNFraction
       /\ master_df[i]["Encounters_roll_std"][w] # NaNFraction

\* The rows of the nationality of row i up to row i, the last n of them.
LastOfGroup(t, i, n) ==
  LET upto == { j \in 1 .. i : t[j].Nationality = t[i].Nationality }
  IN { j \in upto : Cardinality({ h \in upto : h >= j }) <= n }

Min2(a, b) == IF a <= b THEN a ELSE b

NoGdeltData(r) ==
  \A g \in Rows(gdelt_monthly_agg(gdelt_processed_event_data)) :
     ~(g.MonthYear_dt_gdelt = to_period_M(r.Date)
       /\ g.FIPS_CountryCode = r.FIPS_CountryCode)

\* Positions of unified_processing_script.py at which a join is still to come.
BeforeLastJoin == {"merge_distance", "merge_econ", "merge_gdelt", "fill_gdelt",
                   "time_features", "encounter_lags", "encounter_rolling",
                   "gdelt_lags", "econ_lags", "merge_econ_lags"}

\* C9: as long as a join is still to come, no fill has been applied: a row
\* with no GDELT data has a null GDELT_EventCount, not 0.
C9_NoFillBeforeLastJoin ==
  (pc \in BeforeLastJoin /\ HasColumn(master_df, "GDELT_EventCount")) =>
    \A r \in Rows(master_df) : NoGdeltData(r) => r.GDELT_EventCount = NULL

\* C10: every row of the fused table that is written has a distance.
C10_DistancePopulated ==
  pc = "done" => \A r \in Rows(master_df) : r.DistanceToUSBORDER_km # NULL

\* Positions of estimate_rf_models.py after the fills of lines 19-36.
RFAfterFills == {"rf_dropna", "rf_KeyError", "rf_check_empty", "rf_exit",
                 "rf_sort", "rf_split", "rf_ValueError", "rf_check_split",
                 "rf_train_t1", "rf_target_t3", "rf_split_t3", "rf_train_t3",
                 "rf_done"}

\* Positions at which df_cleaned is the table kept for modelling.
RFAfterDropna == RFAfterFills \ {"rf_dropna", "rf_KeyError"}

\* Equality of two fractions.
FracEq(a, b) == a[1] * b[2] = b[1] * a[2]

\* The distance that the fill policy gives to row i of the file t: its own
\* value, or the mean of the distances that the file has, 0 without any.
FilledDistance(t, i) ==
  LET has == { j \in 1 .. Len(t) : t[j].DistanceToUSBORDER_km # NULL }
      total == SumOver([j \in 1 .. Len(t) |-> t[j].DistanceToUSBORDER_km], has)
  IN IF t[i].DistanceToUSBORDER_km # NULL THEN <<t[i].DistanceToUSBORDER_km, 1>>
     ELSE IF has = {} THEN <<0, 1>>
     ELSE <<total, Cardinality(has)>>

\* The table t holds the file master_df with the fill policy applied.
IsFilled(t) ==
  /\ Len(t) = Len(master_df)
  /\ \A i \in 1 .. Len(t) :
        /\ t[i].DistanceToUSBORDER_km # NaNFraction
        /\ FracEq(t[i].DistanceToUSBORDER_km, FilledDistance(master_df, i))
        /\ HasColumn(master_df, "GDELT_EventCount") =>
              t[i].GDELT_EventCount =
                 IF master_df[i].GDELT_EventCount = NULL THEN 0
                 ELSE master_df[i].GDELT_EventCount

IsChronological(train, test) ==
  \A a \in Rows(train) : \A b \in Rows(test) : a.Date < b.Date

\* C12: when a model is trained, its training set and its test set are not
\* empty and every training row is of an earlier Date than every test row,
\* for the 1-month and for the 3-month model.
C12_ChronologicalSplit ==
  /\ pc = "rf_train_t1" =>
        /\ train_df # <<>> /\ test_df # <<>>
        /\ IsChronological(train_df, test_df)
  /\ (pc = "rf_train_t3" /\ train_df_t3 # <<>> /\ test_df_t3 # <<>>) =>
        IsChronological(train_df_t3, test_df_t3)

\* Positions of estimate_rf_models.py after the target column of line 122.
RFAfterTarget == {"rf_split_t3", "rf_train_t3", "rf_done"}

\* The rows of t of the nationality of r with a later Date.
LaterObservations(t, r) ==
  { x \in Rows(t) : x.Nationality = r.Nationality /\ x.Date > r.Date }

\* The Encounters of the nationality of r three observations after r, null
\* when the nationality has fewer than three later observations.
ExpectedTarget(t, r) ==
  LET later == LaterObservations(t, r)
  IN IF Cardinality(later) < 3 THEN NULL
     ELSE (CHOOSE x \in later :
             Cardinality({ y \in later : y.Date < x.Date }) = 2).Encounters

HasNullFeature(t, r) == \E c \in features(t) : isna(c, r[c])

\* C13: the target of a row of the cleaned table is the Encounters of the
\* same nationality three observations later in Date order; the rows of the
\* 3-month model are the rows of the cleaned table that are not among the
\* last three observations of their nationality and have no null feature,
\* its training and test rows are among them; Encounters and the target are
\* not features.
C13_TargetThreeAhead ==
  pc \in RFAfterTarget =>
    /\ \A r \in Rows(df_cleaned) :
          r.Encounters_target_t_plus_3 = ExpectedTarget(df_cleaned, r)
    /\ Rows(df_model_t3) =
          { r \in Rows(df_cleaned) :
              /\ Cardinality(LaterObservations(df_cleaned, r)) >= 3
              /\ ~HasNullFeature(df_cleaned, r) }
    /\ Rows(train_df_t3) \cup Rows(test_df_t3) \subseteq Rows(df_model_t3)
    /\ features(df_cleaned) \cap {"Encounters", "Encounters_target_t_plus_3"} = {}
    /\ features(df_model_t3) \cap {"Encounters", "Encounters_target_t_plus_3"} = {}

\* The 3-month model is trained on a table of several nationalities in
\* which the row three places after a row with a target is of another
\* nationality.
C13_Witness ==
  /\ pc = "rf_train_t3"
  /\ train_df_t3 # <<>> /\ test_df_t3 # <<>>
  /\ \E i \in 1 .. (Len(df_cleaned) - 3) :
        /\ df_cleaned[i].Encounters_target_t_plus_3 # NULL
        /\ df_cleaned[i + 3].Nationality # df_cleaned[i].Nationality

\* The run is one in which the GDELT fetch failed: unified_processing_script
\* .py got an empty GDELT table, or the sample file of
\* preprocess_gdelt_sample.py was written without the GDELT join.
GdeltFetchFailed ==
  \/ migration_df # <<>> /\ pc # "gdelt" /\ gdelt_processed_event_data = <<>>
  \/ migration_df = <<>> /\ ~HasColumn(master_df, "GDELT_EventCount")

\* C14: in a run in which the GDELT fetch failed no stage that consumes the
\* fused table ends in an unhandled error on the missing GDELT data.
C14_EmptyGdeltNotFatal ==
  GdeltFetchFailed => pc \notin {"rf_KeyError", "pf_KeyError"}

\* Positions of unified_processing_script.py after the GDELT fetch.
AfterFetch == AfterJoins \cup {"merge_distance"}

\* C15: in a run of unified_processing_script.py whose GDELT table is empty
\* no GDELT join is made, and the table that is written has no GDELT lag
\* column, has the calendar, Encounters lag, rolling and economic lag columns,
\* a GDELT_EventCount of 0, and one row per observation of the migration
\* table.
C15_GdeltFailureTolerated ==
  (pc \in AfterFetch /\ gdelt_processed_event_data = <<>>) =>
    /\ pc \in {"merge_gdelt", "fill_gdelt"} =>
          "GDELT_EventCount" \notin Columns(master_df)
    /\ pc = "done" =>
          /\ LagCol("GDELT_EventCount") \notin Columns(master_df)
          /\ { "Year", "Month", "Quarter", "TimeIndex", LagCol("Encounters"),
               RollMeanCol("Encounters"), RollStdCol("Encounters"),
               LagCol(econ_cols_to_lag[1]), LagCol(econ_cols_to_lag[2]) }
                \subseteq Columns(master_df)
          /\ \A r \in Rows(master_df) : r.GDELT_EventCount = 0
          /\ Len(master_df) = Len(migration_df)
          /\ Keys(master_df) = Keys(migration_df)
          /\ HasUniqueKeys(master_df)

\* The file is written after a failed fetch, for two nationalities.
C15_Witness ==
  /\ pc = "done"
  /\ gdelt_processed_event_data = <<>>
  /\ \E a, b \in Rows(master_df) : a.Nationality # b.Nationality


\* Positions of estimate_rf_models.py behind the check of lines 50-52.
RFAfterCheckEmpty ==
  { "rf_sort", "rf_split", "rf_check_split", "rf_train_t1", "rf_target_t3",
    "rf_split_t3", "rf_train_t3", "rf_done", "rf_ValueError" }

\* C16: estimate_rf_models.py goes on behind its checks only with a cleaned
\* table, a training set and a test set that are not empty, it has written
\* no artifact when it exits at a check, and it never ends in an unhandled
\* error of the split for lack of rows.
C16_ZeroRowsStopCleanly ==
  /\ pc \in RFAfterCheckEmpty => df_cleaned # <<>>
  /\ pc = "rf_train_t1" => (train_df # <<>> /\ test_df # <<>>)
  /\ pc = "rf_exit" => files \cap RFArtifacts = {}
  /\ pc # "rf_ValueError"

\* The stop of unified_processing_script.py at line 191: the script is at its
\* exit exactly with an empty migration table, and nothing was merged.
UnifiedEmptyStop ==
  pc = "exit" => (migration_df = <<>> /\ master_df = <<>>)

\* The artifacts that a script reads from the directory at its start.
StageInputs ==
  [ calculate_distances |-> {"world_countries.gpkg", "us_mexico_border.gpkg"},
    determine_land_route |-> {"country_distances_and_continents.csv",
                              "world_countries.gpkg"},
    create_final_dataset |-> {"country_final_data.csv"},
    feature_engineering |-> {"master_dataset_final_sample.csv"},
    estimate_rf_models |-> {"master_dataset_with_features.csv"} ]

\* A run of a script that does not find an input artifact writes no file.
NoOutputWithoutInput ==
  \A s \in DOMAIN StageInputs :
    (stage' = s /\ ~(StageInputs[s] \subseteq files)) => files' = files

\* The fused and featured table has been written by a pipeline that ran to
\* its end: the unified script, or the sample script and then the feature
\* script.
FeaturePipelineCompleted ==
  \/ "unified_processing_script" \in completed
  \/ {"preprocess_gdelt_sample", "feature_engineering"} \subseteq completed

\* An output artifact is in the directory only if the stages before its
\* writer have run to their end.
ArtifactsInOrder ==
  /\ "country_distances_and_continents.csv" \in files =>
        "extract_us_mexico_border" \in completed
  /\ "country_final_data.csv" \in files =>
        {"extract_us_mexico_border", "calculate_distances"} \subseteq completed
  /\ "country_distances_to_us_border.csv" \in files =>
        {"extract_us_mexico_border", "calculate_distances",
         "determine_land_route"} \subseteq completed
  /\ "master_dataset_with_features.csv" \in files => FeaturePipelineCompleted
  /\ files \cap RFArtifacts # {} => FeaturePipelineCompleted

\* C17: a script that is started without the artifact of the stage before it
\* (calculate_distances.py, determine_land_route.py, create_final_dataset.py,
\* feature_engineering.py, estimate_rf_models.py) writes no file, and in
\* every directory reached from the empty one an output artifact exists only
\* if every stage before its writer has run to its end.
C17_StagesInOrder ==
  /\ []ArtifactsInOrder
  /\ [][NoOutputWithoutInput]_vars

\* estimate_rf_models.py was started without master_dataset_with_features
\* .csv and left no artifact, after the four distance scripts ran in order.
C17_Witness ==
  /\ stage = "estimate_rf_models"
  /\ "master_dataset_with_features.csv" \notin files
  /\ files \cap RFArtifacts = {}
  /\ "country_distances_to_us_border.csv" \in files

\* calendar.month_name, lower case.
month_name ==
  << <<"j","a","n","u","a","r","y">>, <<"f","e","b","r","u","a","r","y">>,
     <<"m","a","r","c","h">>, <<"a","p","r","i","l">>, <<"m","a","y">>,
     <<"j","u","n","e">>, <<"j","u","l","y">>, <<"a","u","g","u","s","t">>,
     <<"s","e","p","t","e","m","b","e","r">>, <<"o","c","t","o","b","e","r">>,
     <<"n","o","v","e","m","b","e","r">>, <<"d","e","c","e","m","b","e","r">> >>

LowerSeq(s) == [i \in 1 .. Len(s) |-> lower(s[i])]

\* s is the month m, by its full or its abbreviated name, one blank and a
\* four-digit year of which a Timestamp exists ("October 2019", "Oct 2019").
IsLongLabel(s, m) ==
  \E name \in {month_name[m], month_abbr[m]} :
    /\ Len(s) = Len(name) + 5
    /\ LowerSeq(SubSeq(s, 1, Len(name))) = name
    /\ s[Len(name) + 1] = " "
    /\ all_digits(SubSeq(s, Len(name) + 2, Len(s)))
    /\ in_bounds(Timestamp(DecimalValue(SubSeq(s, Len(name) + 2, Len(s))), m, 1))

\* s is the abbreviated month m, a dash and a two-digit year ("Oct-19").
IsShortLabel(s, m) ==
  /\ Len(s) = 6
  /\ LowerSeq(SubSeq(s, 1, 3)) = month_abbr[m]
  /\ s[4] = "-"
  /\ all_digits(SubSeq(s, 5, 6))

\* The date of the label s: the first day of the month of a long label, the
\* first day of the month in 20yy of a short label, NaT for any other label.
ClaimedDate(s) ==
  IF \E m \in 1 .. 12 : IsLongLabel(s, m)
  THEN LET m == CHOOSE k \in 1 .. 12 : IsLongLabel(s, k)
       IN Timestamp(DecimalValue(SubSeq(s, Len(s) - 3, Len(s))), m, 1)
  ELSE IF \E m \in 1 .. 12 : IsShortLabel(s, m)
  THEN LET m == CHOOSE k \in 1 .. 12 : IsShortLabel(s, k)
       IN Timestamp(2000 + DecimalValue(SubSeq(s, 5, 6)), m, 1)
  ELSE NaT

\* C20: parse_date and parse_date_flexible return, for a label of a month
\* name and a four-digit year, the first day of that month; for a label of
\* an abbreviated month and a two-digit year yy, the first day of that month
\* in 20yy; and NaT for every other label.
C20_DateParsing ==
  pc = "parsed" =>
    /\ parse_date_result = ClaimedDate(date_str)
    /\ parse_date_flexible_result = ClaimedDate(date_str)

\* The cutoff of the known bad date range: June 2024 is the last month.
HardCutoff == Timestamp(2024, 6, 1)

\* The rows of a combined table that were taken from the 2019-present sheet.
From2019(t) == { r \in Rows(t) : r.Encounters \in Values2019 }

\* C18: in the table that preprocess_migration_data.py writes, every row
\* whose (Nationality, month) key the 2019-present table has carries the
\* count of the 2019-present table.
C18_PrimarySourceWins ==
  pc = "pm_done" =>
    \A r \in Rows(combined_df) :
      KeyOf(r) \in Keys(df_2019_present) => r \in Rows(df_2019_present)

\* Positions at which the tables of preprocess_single_sheet are there.
AfterSingleSheets == {"start", "preprocessed", "pm_combine", "pm_done"}

\* Positions at which the tables of preprocess_spreadsheet are there.
AfterSpreadsheets == {"pm_combine", "pm_done"}

\* C19: no row of the 2019-present sheet with a Date after the cutoff is in
\* a table made of that sheet or in a combined table, every row of the
\* 2013-present sheet that has a date stays whatever its Date, and the two
\* implementations of the filter keep the same months of the 2019-present
\* sheet.
C19_KnownBadRangeFilter ==
  /\ pc \in AfterSingleSheets =>
        /\ \A r \in Rows(df1) : r.Date < Timestamp(2024, 7, 1)
        /\ \A r \in From2019(migration_df) : r.Date < Timestamp(2024, 7, 1)
        /\ Rows(df2) = Rows(valid_rows(apply_parse_date_flexible(sheet_2013)))
        /\ Len(df2) = Len(valid_rows(apply_parse_date_flexible(sheet_2013)))
  /\ pc \in AfterSpreadsheets =>
        /\ \A r \in Rows(df_2019_present) : r.Date <= HardCutoff
        /\ \A r \in From2019(combined_df) : r.Date <= HardCutoff
        /\ Rows(df_2013_present) = Rows(valid_rows(apply_parse_date(sheet_2013)))
        /\ Len(df_2013_present) = Len(valid_rows(apply_parse_date(sheet_2013)))
        /\ { r.Date : r \in Rows(df_2019_present) } = { r.Date : r \in Rows(df1) }
        /\ \A r \in Rows(df1) : r.Date % 32 = 1

\* Both scripts have combined the sheets; the 2019-present sheet has a cell
\* of June 2024 and a cell of July 2024, of which only the first is in the
\* combined tables, and a row of July 2024 of the 2013-present sheet is in
\* both combined tables.
C19_Witness ==
  /\ pc = "pm_done"
  /\ \E i, j \in 1 .. Len(sheet_2019) :
       /\ sheet_2019[i].Nationality = "Mexico"
       /\ sheet_2019[j].Nationality = "Mexico"
       /\ parse_date(sheet_2019[i].DateStr) = HardCutoff
       /\ parse_date(sheet_2019[j].DateStr) = Timestamp(2024, 7, 1)
  /\ \E r \in From2019(combined_df) : r.Date = HardCutoff
  /\ \E r \in From2019(migration_df) : r.Date = HardCutoff
  /\ \E r \in Rows(combined_df) \cap Rows(migration_df) :
       r.Date = Timestamp(2024, 7, 1)

\* Positions of estimate_rf_models.py after the fit of the 1-month model.
RFAfterTrain_t1 == {"rf_target_t3", "rf_split_t3", "rf_train_t3", "rf_done"}

\* The rows of t of the nationality of r in the month k months after r.
ObservationsAhead(t, r, k) ==
  { x \in Rows(t) : /\ x.Nationality = r.Nationality
                    /\ to_period_M(x.Date) = to_period_M(r.Date) + k }

\* C25: the target that the 1-month model is fitted to is, for every training
\* row, the encounter count of the same nationality in the month after the
\* row's month, not the count of the row itself.
C25_OneMonthAheadTarget ==
  pc \in RFAfterTrain_t1 =>
    \A i \in 1 .. Len(train_df) :
      /\ \A x \in ObservationsAhead(df, train_df[i], 1) :
            y_train_t1[i] = x.Encounters
      /\ \A x \in ObservationsAhead(df, train_df[i], 0) :
            ObservationsAhead(df, train_df[i], 1) # {} =>
              y_train_t1[i] # x.Encounters

\* The Dates of the observations of the nationality of r after r, in t.
LaterDates(t, r) == { x.Date : x \in LaterObservations(t, r) }

\* The Date of the observation that shift(-3) takes the target of r from:
\* the third later observation of the nationality of r.
TargetDate(t, r) ==
  CHOOSE d \in LaterDates(t, r) :
    Cardinality({ e \in LaterDates(t, r) : e < d }) = 2

\* C26: when the 3-month model is trained, the month from which the target
\* of a training row is taken is earlier than the Date of every test row.
C26_NoTargetLeakage ==
  (pc = "rf_train_t3" /\ train_df_t3 # <<>> /\ test_df_t3 # <<>>) =>
    \A r \in Rows(train_df_t3) : \A x \in Rows(test_df_t3) :
      TargetDate(df_cleaned, r) < x.Date

\* The Encounters of the nationality of r in the month k months before the
\* month of r, null when t has no such observation.
CalendarLag(t, r, k) ==
  LET earlier == { x \in Rows(t) :
                     /\ x.Nationality = r.Nationality
                     /\ to_period_M(x.Date) = to_period_M(r.Date) - k }
  IN IF earlier = {} THEN NULL ELSE (CHOOSE x \in earlier : TRUE).Encounters

\* C29: in the table that unified_processing_script.py writes, the lag k of
\* Encounters of a row is the count of the row's nationality in the calendar
\* month k months before the row's Date, null when that month is not
\* observed for the nationality.
C29_CalendarLags ==
  pc = "done" =>
    \A r \in Rows(master_df) : \A k \in EncounterLags :
      r[LagCol("Encounters")][k] = CalendarLag(master_df, r, k)


(***************************************************************************)
(* The cleaning of one wide sheet, cell by cell.  A sheet is what read_csv *)
(* returns: the labels of the first column, the headers of the other       *)
(* columns, and the text of every cell (Cells[i][j] is the cell of label   *)
(* row i under header j).  Labels, headers and cell texts are sequences of *)
(* one-character strings; an empty cell or label is NaN.                   *)
(***************************************************************************)
\* A missing value of a text column (numpy.nan in an object column).
NaNLabel == << "NaN" >>

\* str(numpy.nan), what astype(str) makes of a missing value.
nan_str == << "n", "a", "n" >>

\* The order of the characters by code point.
CharOrder ==
  << " ", ",", "-" >> \o Digits \o UpperCase \o LowerCase

ord(c) == CHOOSE i \in 1 .. Len(CharOrder) : CharOrder[i] = c

\* s < t for two str values.
RECURSIVE str_less(_, _)
str_less(s, t) ==
  IF t = <<>> THEN FALSE
  ELSE IF s = <<>> THEN TRUE
  ELSE IF s[1] # t[1] THEN ord(s[1]) < ord(t[1])
  ELSE str_less(Tail(s), Tail(t))

isalpha(c) == \E i \in 1 .. 26 : UpperCase[i] = c \/ LowerCase[i] = c

upper(c) ==
  IF \E i \in 1 .. 26 : LowerCase[i] = c
  THEN UpperCase[CHOOSE i \in 1 .. 26 : LowerCase[i] = c]
  ELSE c

\* str.lower of a whole string.
str_lower(s) == [i \in 1 .. Len(s) |-> lower(s[i])]

\* str.title: a letter that follows a non-letter (or starts the string) is
\* upper-cased, every other letter is lower-cased.
title(s) ==
  [i \in 1 .. Len(s) |->
     IF i = 1 \/ ~isalpha(s[i - 1]) THEN upper(s[i]) ELSE lower(s[i])]

\* re.search of the literal pat in s.
contains(s, pat) ==
  \E k \in 0 .. (Len(s) - Len(pat)) : SubSeq(s, k + 1, k + Len(pat)) = pat

\* Series.astype(str) on one value.
astype_str(v) == IF v = NaNLabel \/ v = <<>> THEN nan_str ELSE v

\* Series.str.replace(',', '') on one value.
replace_commas(s) == LET NotComma(c) == c # "," IN SelectSeq(s, NotComma)

\* pd.to_numeric(..., errors='coerce') on one cell: the number a text of
\* digits denotes, NaN (NULL) for the empty cell and for any other text.
to_numeric(v) ==
  IF v # <<>> /\ all_digits(v) THEN DecimalValue(v) ELSE NULL

\* .fillna(0).astype(int) on one value.
fillna_0(v) == IF v = NULL THEN 0 ELSE v

\* unified_processing_script.py line 72: the pattern
\* 'Total|Other Countries|All Other|Unknown', matched with case=False.
ValidRowsPattern ==
  { << "t", "o", "t", "a", "l" >>,
    << "o", "t", "h", "e", "r", " ", "c", "o", "u", "n", "t", "r", "i", "e", "s" >>,
    << "a", "l", "l", " ", "o", "t", "h", "e", "r" >>,
    << "u", "n", "k", "n", "o", "w", "n" >> }

\* Line 72, one label: valid_rows_mask.
valid_rows_mask(label) ==
  ~ \E pat \in ValidRowsPattern : contains(str_lower(astype_str(label)), pat)

\* DataFrame.melt(id_vars=['Nationality'], var_name='DateStr',
\* value_name='Encounters') of the label rows idx (in order): the rows of the
\* first column, then the rows of the second, and so on.
melt(sheet, idx) ==
  LET n == Len(idx)
      m == Len(sheet.DateStr)
  IN [k \in 1 .. n * m |->
        LET j == ((k - 1) \div n) + 1
            i == idx[((k - 1) % n) + 1]
        IN [Nationality |-> sheet.Nationality[i],
            DateStr |-> sheet.DateStr[j],
            Encounters |-> sheet.Cells[i][j]]]

\* (Nationality, Date) order of two cleaned rows; a NaN label sorts last.
label_date_less(a, b) ==
  IF a.Nationality # b.Nationality
  THEN IF a.Nationality = NaNLabel THEN FALSE
       ELSE IF b.Nationality = NaNLabel THEN TRUE
       ELSE str_less(a.Nationality, b.Nationality)
  ELSE a.Date < b.Date

\* sort_values(by=['Nationality', 'Date']): a stable sort on the two keys.
sort_by_label_date(t) ==
  LET pos(i) == 1 + Cardinality({ j \in 1 .. Len(t) :
                       \/ label_date_less(t[j], t[i])
                       \/ /\ ~label_date_less(t[i], t[j])
                          /\ j < i })
  IN [k \in 1 .. Len(t) |-> t[CHOOSE i \in 1 .. Len(t) : pos(i) = k]]

\* unified_processing_script.py lines 72-74: the label rows that pass the
\* mask and dropna(subset=['Nationality']).
kept_label_rows(sheet) ==
  LET Keep(i) == /\ valid_rows_mask(sheet.Nationality[i])
                 /\ sheet.Nationality[i] # NaNLabel
  IN SelectSeq([i \in 1 .. Len(sheet.Nationality) |-> i], Keep)

\* Line 76, one cell.
clean_encounters_unified(v) ==
  fillna_0(to_numeric(replace_commas(astype_str(v))))

\* Line 81 with the same cutoff and the strict comparison changed.
single_sheet_cutoff_Mut(t, flag) ==
  LET Keep(r) == r.Date <= Timestamp(2024, 7, 1)
  IN IF flag THEN SelectSeq(t, Keep) ELSE t

\* Line 81: if is_problematic_date_range, keep Date < 2024-07-01.
single_sheet_cutoff(t, flag) ==
  LET Keep(r) == r.Date < Timestamp(2024, 7, 1)
  IN IF flag THEN SelectSeq(t, Keep) ELSE t

\* unified_processing_script.py lines 67-82 (and the same function in
\* preprocess_gdelt_sample.py lines 62-78), on the cells of a sheet.
preprocess_single_sheet_cells(sheet, flag) ==
  LET melted == melt(sheet, kept_label_rows(sheet))
      cleaned == [k \in 1 .. Len(melted) |->
                    [Nationality |-> title(strip(melted[k].Nationality)),
                     Date |-> parse_date_flexible(melted[k].DateStr),
                     Encounters |->
                       clean_encounters_unified(melted[k].Encounters)]]
      HasDate(r) == r.Date # NaT
      NonEmpty(r) == Len(r.Nationality) > 0
  IN sort_by_label_date(
       single_sheet_cutoff(
         SelectSeq(SelectSeq(cleaned, HasDate), NonEmpty), flag))

\* preprocess_migration_data.py line 29, one cell.
clean_encounters_standalone(v) == fillna_0(to_numeric(v))

\* Line 30, one label: .str.strip() leaves NaN as it is.
str_strip(label) == IF label = NaNLabel THEN NaNLabel ELSE strip(label)

\* Line 51: the labels of the isin list.
SummaryLabels ==
  { << "T", "o", "t", "a", "l" >>,
    << "O", "t", "h", "e", "r", " ", "C", "o", "u", "n", "t", "r", "i", "e", "s" >>,
    << "A", "l", "l", " ", "o", "t", "h", "e", "r", ",", " ", "i", "n", "c", "l", "u", "d", "i", "n", "g", " ", "s", "t", "a", "t", "e", "l", "e", "s", "s", " ", "a", "n", "d", " ", "u", "n", "k", "n", "o", "w", "n" >> }

\* Lines 51-52, one label: isin, then str.contains('total', case=False,
\* na=False).
is_placeholder_label(label) ==
  \/ label \in SummaryLabels
  \/ /\ label # NaNLabel
     /\ contains(str_lower(label), << "t", "o", "t", "a", "l" >>)

\* preprocess_migration_data.py lines 3-67, on the cells of a sheet.
preprocess_spreadsheet_cells(sheet, flag) ==
  LET melted == melt(sheet, [i \in 1 .. Len(sheet.Nationality) |-> i])
      cleaned == [k \in 1 .. Len(melted) |->
                    [Nationality |-> str_strip(melted[k].Nationality),
                     Date |-> parse_date(melted[k].DateStr),
                     Encounters |->
                       clean_encounters_standalone(melted[k].Encounters)]]
      HasDate(r) == r.Date # NaT
      NotPlaceholder(r) == ~is_placeholder_label(r.Nationality)
      Cutoff(r) == flag => r.Date <= Timestamp(2024, 6, 1)
  IN sort_by_label_date(
       SelectSeq(SelectSeq(SelectSeq(cleaned, HasDate), NotPlaceholder),
                 Cutoff))

\* The labels of the first column that the sheets of this model hold.
SheetRowLabels ==
  { << "M", "e", "x", "i", "c", "o" >>,
    << " ", "e", "l", " ", "s", "a", "l", "v", "a", "d", "o", "r" >>,
    << "T", "O", "T", "A", "L" >>,
    << "O", "t", "h", "e", "r", " ", "C", "o", "u", "n", "t", "r", "i", "e", "s" >>,
    << "U", "n", "k", "n", "o", "w", "n" >>,
    << " ", " " >>,
    NaNLabel }

\* The headers of the other columns.
SheetHeaders ==
  { << << "J", "a", "n", " ", "2", "0", "2", "0" >>, << "F", "e", "b", " ", "2", "0", "2", "0" >> >>,
    << << "J", "a", "n", " ", "2", "0", "2", "0" >>, << "F", "Y", "2", "0" >> >>,
    << << "J", "u", "n", " ", "2", "0", "2", "4" >>, << "J", "u", "l", " ", "2", "0", "2", "4" >> >> }

\* The cells of one label row, one per header.
SheetCellRows ==
  { << << "1", "2" >>, << "7" >> >>,
    << << "1", ",", "2", "3", "4" >>, <<>> >>,
    << << "a", "b", "c" >>, << "1", "2" >> >> }

MaxSheetRows == 2

\* read_csv gives the first column the dtype object: one label at least is
\* a text.
WideSheets ==
  { [Nationality |-> [i \in DOMAIN rows |-> rows[i][1]],
     DateStr |-> h,
     Cells |-> [i \in DOMAIN rows |-> rows[i][2]]] :
      rows \in UNION { [1 .. k -> SheetRowLabels \X SheetCellRows] :
                         k \in 1 .. MaxSheetRows },
      h \in SheetHeaders }

InitClean ==
  /\ pc = "read_csv"
  /\ df1 = <<>>
  /\ df2 = <<>>
  /\ migration_df = <<>>
  /\ gdelt_processed_event_data = <<>>
  /\ master_df = <<>>
  /\ temp_df_for_econ_lags = <<>>
  /\ EstimateIdle
  /\ temp_df_cleaned = <<>>
  /\ StageIdle
  /\ IngestIdle
  /\ ParseIdle
  /\ ForecastIdle
  /\ LandIdle
  /\ DownloadIdle
  /\ ArrivalsIdle
  /\ sheet_df \in { w \in WideSheets :
                      \E i \in 1 .. Len(w.Nationality) :
                           w.Nationality[i] # NaNLabel }
  /\ problematic_date_range \in BOOLEAN
  /\ df_melted_unified = <<>>
  /\ df_melted_standalone = <<>>

clean_unchanged ==
  UNCHANGED <<unified_vars, estimate_vars, temp_df_cleaned, stage_vars,
              ingest_vars, parse_vars, forecast_vars, land_vars,
              download_vars, arrivals_vars, sheet_df, problematic_date_range>>

\* One call of preprocess_single_sheet on the sheet.
CallPreprocessSingleSheet ==
  /\ pc = "read_csv"
  /\ df_melted_unified' =
       preprocess_single_sheet_cells(sheet_df, problematic_date_range)
  /\ pc' = "single_sheet_done"
  /\ UNCHANGED df_melted_standalone
  /\ clean_unchanged

\* One call of preprocess_spreadsheet on the same sheet.
CallPreprocessSpreadsheet ==
  /\ pc = "single_sheet_done"
  /\ df_melted_standalone' =
       preprocess_spreadsheet_cells(sheet_df, problematic_date_range)
  /\ pc' = "spreadsheet_done"
  /\ UNCHANGED df_melted_unified
  /\ clean_unchanged

NextClean ==
  \/ CallPreprocessSingleSheet
  \/ CallPreprocessSpreadsheet

SpecClean == InitClean /\ [][NextClean]_vars


(***************************************************************************)
(* Properties of the cleaning of one sheet.                                *)
(***************************************************************************)
\* The markers of aggregate and unknown labels.
ExclusionMarkers ==
  { << "t", "o", "t", "a", "l" >>,
    << "o", "t", "h", "e", "r", " ", "c", "o", "u", "n", "t", "r", "i", "e", "s" >>,
    << "a", "l", "l", " ", "o", "t", "h", "e", "r" >>,
    << "u", "n", "k", "n", "o", "w", "n" >> }

HasMarker(label) ==
  \E mk \in ExclusionMarkers : contains(str_lower(label), mk)

\* The integer a cell stands for: its digits once the thousands separators
\* are removed, 0 for an empty cell and for any other text.
ClaimedEncounters(cell) ==
  LET digits == replace_commas(cell)
  IN IF digits # <<>> /\ all_digits(digits) THEN DecimalValue(digits) ELSE 0

\* The cells of the sheet that an output row can come from: the label of
\* the row is the cleaned label of the cell's row, up to case, and its date
\* is the date of the cell's header.
SourceCells(sheet, r) ==
  { c \in (1 .. Len(sheet.Nationality)) \X (1 .. Len(sheet.DateStr)) :
      /\ IF sheet.Nationality[c[1]] = NaNLabel
         THEN r.Nationality = NaNLabel
         ELSE /\ r.Nationality # NaNLabel
              /\ str_lower(r.Nationality) =
                   str_lower(strip(sheet.Nationality[c[1]]))
      /\ parse_date_flexible(sheet.DateStr[c[2]]) = r.Date }

CleanValues(t) ==
  \A r \in Rows(t) :
    /\ r.Encounters \in Nat
    /\ \E c \in SourceCells(sheet_df, r) :
         r.Encounters = ClaimedEncounters(sheet_df.Cells[c[1]][c[2]])

\* C21: every Encounters of the long table of preprocess_single_sheet and of
\* preprocess_spreadsheet is an integer, never null: the number of its cell
\* with the thousands separators removed ("1,234" is 1234), and 0 for an
\* empty or non-numeric cell.
C21_ValueCleaning ==
  pc = "spreadsheet_done" =>
    CleanValues(df_melted_unified) /\ CleanValues(df_melted_standalone)

CleanLabels(t) ==
  \A r \in Rows(t) :
    /\ r.Nationality # NaNLabel
    /\ r.Nationality = title(strip(r.Nationality))
    /\ Len(r.Nationality) > 0
    /\ ~HasMarker(r.Nationality)

\* C22: every Nationality of the long table of preprocess_single_sheet and
\* of preprocess_spreadsheet is stripped, title-cased and non-empty and
\* contains none of the markers "total", "other countries", "all other",
\* "unknown" in any case; no row has a missing label.
C22_LabelCleaning ==
  pc = "spreadsheet_done" =>
    CleanLabels(df_melted_unified) /\ CleanLabels(df_melted_standalone)

\* The label rows that are not excluded: the label is there, holds no
\* marker and is not blank.
NonExcludedRows(sheet) ==
  { i \in 1 .. Len(sheet.Nationality) :
      /\ sheet.Nationality[i] # NaNLabel
      /\ ~HasMarker(sheet.Nationality[i])
      /\ strip(sheet.Nationality[i]) # <<>> }

\* The columns whose header parses to a date.
DateColumns(sheet) ==
  { j \in 1 .. Len(sheet.DateStr) : parse_date_flexible(sheet.DateStr[j]) # NaT }

\* The columns that the known-bad-range filter of a flagged sheet keeps.
KeptColumns(sheet, flag) ==
  { j \in DateColumns(sheet) :
      flag => parse_date_flexible(sheet.DateStr[j]) < Timestamp(2024, 7, 1) }

\* The long table t holds exactly one row for every pair of a label row of
\* rows and a column of cols: as many rows as pairs, and for every pair as
\* many rows with its label and date as there are pairs with that label and
\* date.
OneRowPerPair(t, sheet, rows, cols) ==
  /\ Len(t) = Cardinality(rows \X cols)
  /\ \A c \in rows \X cols :
       LET label == title(strip(sheet.Nationality[c[1]]))
           date == parse_date_flexible(sheet.DateStr[c[2]])
       IN Cardinality({ k \in 1 .. Len(t) :
                          t[k].Nationality = label /\ t[k].Date = date })
          = Cardinality({ d \in rows \X cols :
                            /\ title(strip(sheet.Nationality[d[1]])) = label
                            /\ parse_date_flexible(sheet.DateStr[d[2]]) = date })

\* C23, as the specification states it: the long table of
\* preprocess_single_sheet holds exactly one row for every pair of a
\* non-excluded label row and a column whose header parses to a date.
C23_OneRowPerLabelAndDateColumn ==
  pc # "read_csv" =>
    OneRowPerPair(df_melted_unified, sheet_df, NonExcludedRows(sheet_df),
                  DateColumns(sheet_df))

\* C23: the long table of preprocess_single_sheet holds exactly one row for
\* every pair of a non-excluded label row and a column whose header parses
\* to a date that the known-bad-range filter keeps (every date without the
\* flag, the dates before 2024-07-01 with it); a header that does not parse
\* removes the rows of its column only.
C23_OneRowPerLabelAndKeptColumn ==
  pc # "read_csv" =>
    OneRowPerPair(df_melted_unified, sheet_df, NonExcludedRows(sheet_df),
                  KeptColumns(sheet_df, problematic_date_range))

\* A flagged sheet with the columns "Jun 2024" and "Jul 2024" and two
\* labels that are kept: the long table has the two rows of June.
C23_Witness ==
  /\ pc # "read_csv"
  /\ problematic_date_range
  /\ sheet_df.DateStr = << << "J", "u", "n", " ", "2", "0", "2", "4" >>, << "J", "u", "l", " ", "2", "0", "2", "4" >> >>
  /\ Cardinality(NonExcludedRows(sheet_df)) = 2
  /\ Len(df_melted_unified) = 2

\* A sheet with a header that does not parse ("FY20") next to one that
\* does: the rows of the other column are there.
C23_UnparsedHeaderSeen ==
  /\ pc # "read_csv"
  /\ sheet_df.DateStr = << << "J", "a", "n", " ", "2", "0", "2", "0" >>, << "F", "Y", "2", "0" >> >>
  /\ Cardinality(NonExcludedRows(sheet_df)) = 2
  /\ Len(df_melted_unified) = 2


(***************************************************************************)
(* perform_forecasting.py in a directory from which artifacts are missing. *)
(* The script runs after estimate_rf_models.py; the directory holds the    *)
(* master file and what estimate_rf_models.py wrote, less the files of     *)
(* absent.                                                                 *)
(***************************************************************************)
\* Lines 13-41: the five files the script loads, each in its own try.
ForecastInputs ==
  { "test_data_with_predictions_t1.csv", "test_data_with_predictions_t3.csv",
    "rf_model_t1.joblib", "rf_model_t3.joblib",
    "master_dataset_with_features.csv" }

\* Lines 90-98: the fills and the first dropna, applied to the master file.
forecast_fills(master) ==
  LET mean_dist == column_mean(master, "DistanceToUSBORDER_km")
      d == IF /\ HasColumn(master, "DistanceToUSBORDER_km")
              /\ isnull_any_float(master, "DistanceToUSBORDER_km")
           THEN fillna_float(master, "DistanceToUSBORDER_km",
                             IF mean_dist = NaNFraction THEN <<0, 1>>
                             ELSE mean_dist)
           ELSE master
      g == IF HasColumn(d, "GDELT_EventCount")
           THEN fillna(d, "GDELT_EventCount", 0) ELSE d
  IN dropna(g, critical_lag_roll_features(g))

\* Line 104: rf_model_t1.feature_names_in_ is read whether or not
\* rf_model_t1 was loaded; on None it raises an AttributeError.
feature_names_ok(has_t1) == has_t1

\* perform_forecasting.py, the whole script.  Lines 13-41 load what is
\* there; lines 69-131 run with the master table and one model at least:
\* the cleaning (KeyError at line 99 without the two columns), then with
\* rows left line 104, then the forecasts of the models that are not None
\* (lines 110 and 118).
perform_forecasting_without(absent) ==
  /\ pc \in {"rf_done", "rf_exit", "rf_KeyError", "rf_ValueError"}
  /\ LET there == (files \cup {"master_dataset_with_features.csv"}) \ absent
         has_t1 == "rf_model_t1.joblib" \in there
         has_t3 == "rf_model_t3.joblib" \in there
         kept == forecast_fills(read_csv(master_df))
         cleaned == dropna(kept, {"DistanceToUSBORDER_km", "GDELT_EventCount"})
     IN /\ loaded' = there \cap ForecastInputs
        /\ IF "master_dataset_with_features.csv" \in there /\ (has_t1 \/ has_t3)
           THEN IF ~({"DistanceToUSBORDER_km", "GDELT_EventCount"}
                       \subseteq Columns(kept))
                THEN /\ temp_df_cleaned' = kept
                     /\ new_forecasts' = {}
                     /\ pc' = "pf_KeyError"
                ELSE /\ temp_df_cleaned' = cleaned
                     /\ IF cleaned = <<>>
                        THEN new_forecasts' = {} /\ pc' = "pf_done"
                        ELSE IF ~feature_names_ok(has_t1)
                        THEN new_forecasts' = {} /\ pc' = "pf_AttributeError"
                        ELSE /\ new_forecasts' =
                                  { f \in {"rf_model_t1.joblib", "rf_model_t3.joblib"} :
                                      f \in there }
                             /\ pc' = "pf_done"
           ELSE /\ temp_df_cleaned' = <<>>
                /\ new_forecasts' = {}
                /\ pc' = "pf_done"
  /\ UNCHANGED <<stage_vars, ingest_vars, parse_vars, clean_vars, land_vars,
                 download_vars, arrivals_vars, unified_vars, estimate_vars>>

NextForecast ==
  \/ NextRF
  \/ \E absent \in SUBSET ForecastInputs : perform_forecasting_without(absent)

SpecForecast == InitRF /\ [][NextForecast]_vars

\* C30: whatever subset of its five input artifacts is absent,
\* perform_forecasting.py runs to its final message without an unhandled
\* error, and the new forecasts it prints are those of models it has loaded.
C30_ToleratesMissingArtifacts ==
  /\ pc \notin {"pf_AttributeError", "pf_KeyError"}
  /\ new_forecasts \subseteq loaded


(***************************************************************************)
(* calculate_distances.py and determine_land_route.py on the countries of  *)
(* world_countries.gpkg.  A country is its ADM0_A3 code, its CONTINENT and *)
(* its geometry: a polygon, an empty geometry or None.  The file is the    *)
(* Natural Earth table of countries, one feature per ADM0_A3 code, with    *)
(* the United States and Mexico (extract_us_mexico_border.py raises        *)
(* without them).                                                          *)
(***************************************************************************)
Continents == { "North America", "South America", "Europe" }

Geometries == { "Polygon", "EMPTY", "None" }

\* The codes of the other countries of the model, in the order of the file.
OtherCodes == << "GTM", "CUB", "GRL", "FRA" >>

MaxCountries == 2

Country(code, continent, geometry) ==
  [ADM0_A3 |-> code, CONTINENT |-> continent, geometry |-> geometry]

\* The files: the United States, Mexico, Canada or not, and at most
\* MaxCountries of the other countries.
WorldFiles ==
  { << Country("USA", "North America", "Polygon"),
       Country("MEX", "North America", "Polygon") >>
      \o can
      \o FlattenSeq([i \in 1 .. Len(OtherCodes) |->
                       IF f[i] = << >> THEN << >>
                       ELSE << Country(OtherCodes[i], f[i][1], f[i][2]) >>]) :
      can \in { << >> } \cup { << Country("CAN", c, g) >> :
                                 c \in { "North America", "Europe" },
                                 g \in Geometries },
      f \in { h \in [1 .. Len(OtherCodes) ->
                       { << >> } \cup (Continents \X Geometries)] :
                Cardinality({ i \in 1 .. Len(OtherCodes) : h[i] # << >> })
                  <= MaxCountries } }

InitLand ==
  /\ pc = "calculate_distances"
  /\ df1 = <<>>
  /\ df2 = <<>>
  /\ migration_df = <<>>
  /\ gdelt_processed_event_data = <<>>
  /\ master_df = <<>>
  /\ temp_df_for_econ_lags = <<>>
  /\ EstimateIdle
  /\ temp_df_cleaned = <<>>
  /\ StageIdle
  /\ IngestIdle
  /\ ParseIdle
  /\ CleanIdle
  /\ ForecastIdle
  /\ DownloadIdle
  /\ ArrivalsIdle
  /\ world_gdf \in WorldFiles
  /\ results_df = <<>>
  /\ country_final_data = <<>>

land_unchanged ==
  UNCHANGED <<unified_vars, estimate_vars, temp_df_cleaned, stage_vars,
              ingest_vars, parse_vars, clean_vars, forecast_vars,
              download_vars, arrivals_vars, world_gdf>>

\* calculate_distances.py lines 24-73: one row of results per country of
\* the file, with its ADM0_A3 as ISO_A3 and its CONTINENT.
calculate_distances ==
  /\ pc = "calculate_distances"
  /\ results_df' = [i \in 1 .. Len(world_gdf) |->
                      [ISO_A3 |-> world_gdf[i].ADM0_A3,
                       Continent |-> world_gdf[i].CONTINENT]]
  /\ pc' = "determine_land_route"
  /\ UNCHANGED country_final_data
  /\ land_unchanged

\* determine_land_route.py line 13: pd.merge(df, world_gdf[['ADM0_A3',
\* 'geometry']], left_on='ISO_A3', right_on='ADM0_A3', how='left').
merge_geometry(left, world) ==
  FlattenSeq([i \in 1 .. Len(left) |->
     LET Hit(j) == world[j].ADM0_A3 = left[i].ISO_A3
         hits == SelectSeq([j \in 1 .. Len(world) |-> j], Hit)
     IN IF hits = << >>
        THEN << [ISO_A3 |-> left[i].ISO_A3, Continent |-> left[i].Continent,
                 geometry |-> "None"] >>
        ELSE [k \in 1 .. Len(hits) |->
                [ISO_A3 |-> left[i].ISO_A3, Continent |-> left[i].Continent,
                 geometry |-> world[hits[k]].geometry]]])

\* Line 19.
american_continents == { "North America", "South America" }

\* Lines 153-159 without 'CUB'.
island_exceptions_iso_a3_Mut ==
  { "ATG", "AIA", "BES", "BHS", "BMU", "BRB", "CUW", "CYM", "DMA", "DOM",
    "FLK", "GRD", "GRL", "GLP", "HTI", "JAM", "KNA", "LCA", "MAF", "MSR",
    "MTQ", "PRI", "SGS", "SXM", "TCA", "TTO", "VCT", "VGB", "VIR" }

\* Lines 153-159.
island_exceptions_iso_a3 ==
  { "ATG", "AIA", "BES", "BHS", "BMU", "BRB", "CUB", "CUW", "CYM", "DMA", "DOM",
    "FLK", "GRD", "GRL", "GLP", "HTI", "JAM", "KNA", "LCA", "MAF", "MSR",
    "MTQ", "PRI", "SGS", "SXM", "TCA", "TTO", "VCT", "VGB", "VIR" }

\* Lines 85-167, one row of the loop.
loop_land_route(row) ==
  IF row.Continent \notin american_continents THEN FALSE
  ELSE IF row.ISO_A3 \in { "USA", "MEX", "CAN" } THEN TRUE
  ELSE IF row.geometry = "None" \/ row.geometry = "EMPTY" THEN FALSE
  ELSE row.ISO_A3 \notin island_exceptions_iso_a3

\* Lines 76-186: the flag of the loop, set to True for USA, MEX and CAN at
\* line 174, and the geometry dropped.
land_route_table(merged) ==
  [i \in 1 .. Len(merged) |->
     [x \in { "ISO_A3", "Continent", "Land Route Possible" } |->
        IF x = "Land Route Possible"
        THEN \/ merged[i].ISO_A3 \in { "USA", "MEX", "CAN" }
             \/ loop_land_route(merged[i])
        ELSE merged[i][x]]]

\* determine_land_route.py, the whole script: lines 80-82 raise an
\* IndexError when the file has no USA, MEX or CAN; else the table is
\* written at line 189.
determine_land_route ==
  /\ pc = "determine_land_route"
  /\ IF \A code \in { "USA", "MEX", "CAN" } :
          \E j \in 1 .. Len(world_gdf) : world_gdf[j].ADM0_A3 = code
     THEN /\ country_final_data' =
               land_route_table(merge_geometry(results_df, world_gdf))
          /\ pc' = "land_route_done"
     ELSE /\ UNCHANGED country_final_data
          /\ pc' = "land_route_IndexError"
  /\ UNCHANGED results_df
  /\ land_unchanged

NextLand ==
  \/ calculate_distances
  \/ determine_land_route

SpecLand == InitLand /\ [][NextLand]_vars

\* The codes of the islands of the exception list.
ListedIslands ==
  { "ATG", "AIA", "BES", "BHS", "BMU", "BRB", "CUB", "CUW", "CYM", "DMA", "DOM",
    "FLK", "GRD", "GRL", "GLP", "HTI", "JAM", "KNA", "LCA", "MAF", "MSR",
    "MTQ", "PRI", "SGS", "SXM", "TCA", "TTO", "VCT", "VGB", "VIR" }

\* The geometry of a country of the file.
GeometryOf(code) ==
  LET j == CHOOSE k \in 1 .. Len(world_gdf) : world_gdf[k].ADM0_A3 = code
  IN world_gdf[j].geometry

\* C27: in country_final_data.csv 'Land Route Possible' is True for a country
\* exactly when its ISO_A3 is USA, MEX or CAN, or its Continent is North or
\* South America, its geometry is there and not empty, and its ISO_A3 is not
\* a listed island; the table has one row per row of the distance table, in
\* the same order.
C27_LandRouteClassification ==
  pc = "land_route_done" =>
    /\ Len(country_final_data) = Len(results_df)
    /\ \A i \in 1 .. Len(country_final_data) :
         LET r == country_final_data[i]
         IN /\ r["ISO_A3"] = results_df[i].ISO_A3
            /\ r["Land Route Possible"] =
                 ( \/ r["ISO_A3"] \in { "USA", "MEX", "CAN" }
                   \/ /\ r["Continent"] \in { "North America", "South America" }
                      /\ GeometryOf(r["ISO_A3"]) = "Polygon"
                      /\ r["ISO_A3"] \notin ListedIslands )

\* A table with Canada filed under another continent, a listed island of
\* North America with a polygon and a mainland country with one: True,
\* False, True.
C27_Witness ==
  /\ pc = "land_route_done"
  /\ \E i, j, k \in 1 .. Len(country_final_data) :
       /\ country_final_data[i]["ISO_A3"] = "CAN"
       /\ country_final_data[i]["Continent"] = "Europe"
       /\ country_final_data[i]["Land Route Possible"]
       /\ country_final_data[j]["ISO_A3"] = "CUB"
       /\ country_final_data[j]["Continent"] = "North America"
       /\ GeometryOf("CUB") = "Polygon"
       /\ ~country_final_data[j]["Land Route Possible"]
       /\ country_final_data[k]["ISO_A3"] = "GTM"
       /\ country_final_data[k]["Continent"] = "North America"
       /\ GeometryOf("GTM") = "Polygon"
       /\ country_final_data[k]["Land Route Possible"]


(***************************************************************************)
(* The download of the two sheets by preprocess_main_migration_data, in    *)
(* unified_processing_script.py and in preprocess_gdelt_sample.py.  A      *)
(* sheet file is absent, small (at most 1000 bytes) or large.  A download  *)
(* succeeds, fails in requests (connection or HTTP error: the file is not  *)
(* opened) or fails while the file is written (the file is there,          *)
(* partial); os.remove succeeds or raises an OSError.                      *)
(***************************************************************************)
FILE_2019_PRESENT == "encounters_2019_present.csv"

FILE_2013_PRESENT == "encounters_2013_present.csv"

FileStates == { "absent", "small", "large" }

\* os.path.exists(f) and os.remove(f): the file is gone, or os.remove
\* raises and it stays.
remove_outcomes(before) ==
  IF before = "absent"
  THEN { [file |-> "absent", removed |-> TRUE] }
  ELSE { [file |-> "absent", removed |-> TRUE],
         [file |-> before, removed |-> FALSE] }

\* unified_processing_script.py lines 21-34: every exception of the try is
\* caught, an OSError of os.remove is passed over, False is returned.
download_unified(before) ==
  { [file |-> size, result |-> "True"] : size \in { "small", "large" } }
    \cup { [file |-> o.file, result |-> "False"] : o \in remove_outcomes(before) }
    \cup { [file |-> o.file, result |-> "False"] : o \in remove_outcomes("small") }

\* preprocess_gdelt_sample.py lines 18-32: only a RequestException is
\* caught, so the error of a failed write leaves the function with the
\* partial file on disk; os.remove is not in a try.
download_gdelt_sample(before) ==
  { [file |-> size, result |-> "True"] : size \in { "small", "large" } }
    \cup { [file |-> o.file, result |-> IF o.removed THEN "False" ELSE "OSError"] :
             o \in remove_outcomes(before) }
    \cup { [file |-> "small", result |-> "OSError"] }

download_csv_from_google_sheets(s, before) ==
  IF s = "unified_processing_script" THEN download_unified(before)
  ELSE download_gdelt_sample(before)

InitDownload ==
  /\ pc = "dl_2019"
  /\ df1 = <<>>
  /\ df2 = <<>>
  /\ migration_df = <<>>
  /\ gdelt_processed_event_data = <<>>
  /\ master_df = <<>>
  /\ temp_df_for_econ_lags = <<>>
  /\ EstimateIdle
  /\ temp_df_cleaned = <<>>
  /\ StageIdle
  /\ IngestIdle
  /\ ParseIdle
  /\ CleanIdle
  /\ ForecastIdle
  /\ LandIdle
  /\ ArrivalsIdle
  /\ script \in { "unified_processing_script", "preprocess_gdelt_sample" }
  /\ sheet_files \in [{ FILE_2019_PRESENT, FILE_2013_PRESENT } -> FileStates]
  /\ attempted = {}
  /\ failed = {}
  /\ dl_result = "none"

download_unchanged ==
  UNCHANGED <<unified_vars, df, df_cleaned, split_vars, temp_df_cleaned,
              stage_vars, ingest_vars, parse_vars, clean_vars, forecast_vars,
              land_vars, arrivals_vars, script>>

\* unified_processing_script.py lines 41-49, preprocess_gdelt_sample.py
\* lines 39-49, for one sheet: a file of more than 1000 bytes is kept, else
\* the sheet is downloaded.  preprocess_gdelt_sample.py returns an empty
\* table at once when the download fails; unified_processing_script.py goes
\* on to the next sheet.
fetch_sheet(name, at, next) ==
  /\ pc = at
  /\ IF sheet_files[name] = "large"
     THEN /\ pc' = next
          /\ UNCHANGED <<sheet_files, attempted, failed, dl_result>>
     ELSE \E o \in download_csv_from_google_sheets(script, sheet_files[name]) :
          /\ sheet_files' = [sheet_files EXCEPT ![name] = o.file]
          /\ attempted' = attempted \cup { name }
          /\ failed' = IF o.result = "True" THEN failed
                       ELSE failed \cup { name }
          /\ IF o.result = "OSError"
             THEN pc' = "dl_raised" /\ UNCHANGED dl_result
             ELSE IF o.result = "False" /\ script = "preprocess_gdelt_sample"
             THEN pc' = "dl_returned" /\ dl_result' = "empty_table"
             ELSE pc' = next /\ UNCHANGED dl_result
  /\ UNCHANGED files
  /\ download_unchanged

Fetch2019 == fetch_sheet(FILE_2019_PRESENT, "dl_2019", "dl_2013")

Fetch2013 == fetch_sheet(FILE_2013_PRESENT, "dl_2013", "dl_check")

\* unified_processing_script.py lines 51-93 (preprocess_gdelt_sample.py
\* lines 80-92): an empty table when a download failed or a file is not
\* there; else the sheets are processed, and unless both tables are empty
\* the combined table is written and returned.
ProcessSheets ==
  /\ pc = "dl_check"
  /\ IF \/ failed # {}
        \/ \E name \in DOMAIN sheet_files : sheet_files[name] = "absent"
     THEN /\ dl_result' = "empty_table"
          /\ UNCHANGED files
     ELSE \E both_empty \in BOOLEAN :
            IF both_empty
            THEN dl_result' = "empty_table" /\ UNCHANGED files
            ELSE /\ dl_result' = "table"
                 /\ files' = files \cup { "us_border_encounters_monthly.csv" }
  /\ pc' = "dl_returned"
  /\ UNCHANGED <<sheet_files, attempted, failed>>
  /\ download_unchanged

NextDownload ==
  \/ Fetch2019
  \/ Fetch2013
  \/ ProcessSheets

SpecDownload == InitDownload /\ [][NextDownload]_vars

\* A sheet is downloaded only when its file is absent or at most 1000
\* bytes; a larger file is left as it is.
DownloadOnlyWhenNeeded ==
  \A name \in { FILE_2019_PRESENT, FILE_2013_PRESENT } :
    /\ name \in attempted' \ attempted => sheet_files[name] # "large"
    /\ sheet_files[name] = "large" => sheet_files'[name] = "large"

\* After a failed download no file of that name is on disk, and the
\* function has returned an empty table or is on its way to it, without
\* having written us_border_encounters_monthly.csv.
FailedDownloadHandled ==
  failed # {} =>
    /\ \A name \in failed : sheet_files[name] = "absent"
    /\ pc # "dl_raised"
    /\ pc = "dl_returned" => dl_result = "empty_table"
    /\ "us_border_encounters_monthly.csv" \notin files

\* C28: a sheet is downloaded only when its local file is absent or at most
\* 1000 bytes, else the file is reused; after a failed download no file of
\* that name remains; when a download fails the function returns an empty
\* table and writes no us_border_encounters_monthly.csv.
C28_DownloadHandling ==
  /\ [][DownloadOnlyWhenNeeded]_vars
  /\ []FailedDownloadHandled


(***************************************************************************)
(* analyze_arrivals.py.  The script has two main blocks (lines 271-355     *)
(* and 487-586) and runs one after the other: each fetches the three       *)
(* arrivals series and the environmental data of the two locations, merges *)
(* and saves; the second also correlates.  A response is described by what *)
(* the code looks at; a table is empty or not (the arrivals) or the set of *)
(* its columns (the environmental tables, {} for an empty table).          *)
(***************************************************************************)
Routes == { "canary", "mainland_sea", "mainland_land" }

\* Line 20: LOCATIONS.
LOCATIONS == { "canary", "mainland" }

UnhcrResponse(status, json_ok, keys, ts_type, points, columns, dates_ok) ==
  [status |-> status, json_ok |-> json_ok, keys |-> keys, ts_type |-> ts_type,
   points |-> points, columns |-> columns, dates_ok |-> dates_ok]

\* What the UNHCR endpoint can answer: no connection, an HTTP error status,
\* a body that is no JSON, JSON without 'data' or 'timeseries', a
\* timeseries that is a list, a dict (with or without keys) or a string,
\* data points that are no list, an empty list, points without a date
\* column, with dates that do not convert, without 'individuals', and
\* well-formed points.
UnhcrResponses ==
  { UnhcrResponse("connection_error", FALSE, {}, "none", "none", {}, FALSE),
    UnhcrResponse("http_error", FALSE, {}, "none", "none", {}, FALSE),
    UnhcrResponse("ok", FALSE, {}, "none", "none", {}, FALSE),
    UnhcrResponse("ok", TRUE, { "data" }, "none", "none", {}, FALSE),
    UnhcrResponse("ok", TRUE, { "data", "timeseries" }, "str", "none", {}, FALSE),
    UnhcrResponse("ok", TRUE, { "data", "timeseries" }, "empty_dict", "none", {},
                  FALSE),
    UnhcrResponse("ok", TRUE, { "data", "timeseries" }, "dict", "str", {}, FALSE),
    UnhcrResponse("ok", TRUE, { "data", "timeseries" }, "list", "empty_list", {},
                  FALSE),
    UnhcrResponse("ok", TRUE, { "data", "timeseries" }, "list", "list",
                  { "individuals" }, FALSE),
    UnhcrResponse("ok", TRUE, { "data", "timeseries" }, "list", "list",
                  { "data_point_month", "individuals" }, FALSE),
    UnhcrResponse("ok", TRUE, { "data", "timeseries" }, "list", "list",
                  { "unix_timestamp" }, TRUE),
    UnhcrResponse("ok", TRUE, { "data", "timeseries" }, "dict", "list",
                  { "month", "year", "individuals" }, TRUE),
    UnhcrResponse("ok", TRUE, { "data", "timeseries" }, "list", "list",
                  { "unix_timestamp", "individuals" }, TRUE) }

\* Lines 48-160 with the handler of line 158 left out: an error that is no
\* HTTPError leaves the function.
fetch_unhcr_data_Mut(r) ==
  IF r.status = "connection_error" THEN "raised"
  ELSE IF r.status = "http_error" THEN "empty"
  ELSE IF ~r.json_ok THEN "raised"
  ELSE IF ~({ "data", "timeseries" } \subseteq r.keys) THEN "empty"
  ELSE IF r.ts_type \notin { "list", "dict" } THEN "empty"
  ELSE IF r.points # "list" THEN "empty"
  ELSE IF r.columns = {} THEN "empty"
  ELSE IF ~ /\ \/ "unix_timestamp" \in r.columns
               \/ "data_point_month" \in r.columns
               \/ { "month", "year" } \subseteq r.columns
            /\ r.dates_ok
       THEN "empty"
  ELSE IF "individuals" \notin r.columns THEN "empty"
  ELSE "table"

\* analyze_arrivals.py lines 48-160, fetch_unhcr_data: "empty" is
\* pd.DataFrame(), "table" the monthly series of arrivals.  requests.get,
\* raise_for_status and response.json() are inside the try, whose handlers
\* (lines 155-160) return an empty table; every test of the structure
\* returns one as well (lines 57-59, 74-89, 101-103, 131-133, 145-147), and
\* a date column that does not convert is passed over (lines 107-129).
fetch_unhcr_data(r) ==
  IF r.status = "connection_error" THEN "empty"
  ELSE IF r.status = "http_error" THEN "empty"
  ELSE IF ~r.json_ok THEN "empty"
  ELSE IF ~({ "data", "timeseries" } \subseteq r.keys) THEN "empty"
  ELSE IF r.ts_type \notin { "list", "dict" } THEN "empty"
  ELSE IF r.points # "list" THEN "empty"
  ELSE IF r.columns = {} THEN "empty"
  ELSE IF ~ /\ \/ "unix_timestamp" \in r.columns
               \/ "data_point_month" \in r.columns
               \/ { "month", "year" } \subseteq r.columns
            /\ r.dates_ok
       THEN "empty"
  ELSE IF "individuals" \notin r.columns THEN "empty"
  ELSE "table"

MeteoResponse(status, json_ok, keys, time_ok, columns) ==
  [status |-> status, json_ok |-> json_ok, keys |-> keys, time_ok |-> time_ok,
   columns |-> columns]

\* The answers of the failed kinds: no connection, an HTTP error status, a
\* body that is no JSON, JSON without 'hourly', 'hourly' without 'time', and
\* times that do not convert.
MeteoFailures ==
  { MeteoResponse("connection_error", FALSE, {}, FALSE, {}),
    MeteoResponse("http_error", FALSE, {}, FALSE, {}),
    MeteoResponse("ok", FALSE, {}, FALSE, {}),
    MeteoResponse("ok", TRUE, {}, FALSE, {}),
    MeteoResponse("ok", TRUE, { "hourly" }, FALSE, {}),
    MeteoResponse("ok", TRUE, { "hourly", "time" }, FALSE, { "wave_height" }) }

\* What the marine endpoint can answer: a failure, or hourly data with only
\* a direction, or with the waves and the temperature.
MarineResponses ==
  MeteoFailures
    \cup { MeteoResponse("ok", TRUE, { "hourly", "time" }, TRUE, cols) :
             cols \in { { "wave_direction" },
                        { "wave_height", "wave_direction",
                          "sea_surface_temperature" } } }

\* What the archive endpoint can answer: a failure, or hourly data with no
\* column but the time, or with the precipitation.
AtmosResponses ==
  { MeteoResponse("http_error", FALSE, {}, FALSE, {}),
    MeteoResponse("ok", TRUE, { "hourly", "time" }, TRUE, {}),
    MeteoResponse("ok", TRUE, { "hourly", "time" }, TRUE, { "precipitation" }) }

\* analyze_arrivals.py lines 162-215, fetch_open_meteo_data: the columns of
\* the hourly table, {} for pd.DataFrame() and for a table without columns.
\* The request, response.json() and the conversion of the times are inside
\* the try, whose handlers (lines 197-215) return an empty table.
fetch_open_meteo_data(r) ==
  IF r.status # "ok" THEN {}
  ELSE IF ~r.json_ok THEN {}
  ELSE IF ~({ "hourly", "time" } \subseteq r.keys) THEN {}
  ELSE IF ~r.time_ok THEN {}
  ELSE r.columns

\* Line 224: directional_vars_map.
directional_vars_map ==
  [wave_direction |-> "wave_height",
   swell_wave_direction |-> "swell_wave_height",
   wind_direction_10m |-> "wind_speed_10m",
   ocean_current_direction |-> "ocean_current_velocity"]

\* Lines 240-242: the names of the two components of a magnitude.
uv_names ==
  [wave_height |-> { "wave_u", "wave_v" },
   swell_wave_height |-> { "swell_wave_u", "swell_wave_v" },
   wind_speed_10m |-> { "wind_10m_u", "wind_10m_v" },
   ocean_current_velocity |-> { "ocean_current_u", "ocean_current_v" }]

\* Lines 217-268, aggregate_env_data_monthly: the components of every
\* direction that has its magnitude, and every column that is neither a
\* direction nor a magnitude; an empty table when there is none.
aggregate_env_data_monthly(columns) ==
  UNION { uv_names[directional_vars_map[d]] :
            d \in { c \in DOMAIN directional_vars_map :
                      c \in columns /\ directional_vars_map[c] \in columns } }
    \cup { c \in columns :
             /\ c \notin DOMAIN directional_vars_map
             /\ c \notin { directional_vars_map[d] : d \in DOMAIN directional_vars_map } }

\* Lines 297-311: no table when both hourly tables are empty, else the one
\* that is not, or their outer join.
env_of_location(marine, atmos) ==
  aggregate_env_data_monthly(marine \cup atmos)

InitArrivals ==
  /\ pc = "fetch_canary"
  /\ df1 = <<>>
  /\ df2 = <<>>
  /\ migration_df = <<>>
  /\ gdelt_processed_event_data = <<>>
  /\ master_df = <<>>
  /\ temp_df_for_econ_lags = <<>>
  /\ EstimateIdle
  /\ temp_df_cleaned = <<>>
  /\ StageIdle
  /\ IngestIdle
  /\ ParseIdle
  /\ CleanIdle
  /\ ForecastIdle
  /\ LandIdle
  /\ DownloadIdle
  /\ block = 1
  /\ arrivals = [b \in 1 .. 2 |-> [r \in Routes |-> "none"]]
  /\ env_monthly = [b \in 1 .. 2 |-> [l \in LOCATIONS |-> {}]]
  /\ analysis = [b \in 1 .. 2 |-> [l \in LOCATIONS |-> "none"]]
  /\ saved = {}
  /\ correlated = {}

arrivals_unchanged ==
  UNCHANGED <<unified_vars, estimate_vars, temp_df_cleaned, stage_vars,
              ingest_vars, parse_vars, clean_vars, forecast_vars, land_vars,
              download_vars>>

\* Lines 277-279 and 493-495, one call of fetch_unhcr_data.
FetchArrivals(route, at, next) ==
  /\ pc = at
  /\ \E r \in UnhcrResponses :
       arrivals' = [arrivals EXCEPT ![block][route] = fetch_unhcr_data(r)]
  /\ pc' = IF arrivals'[block][route] = "raised" THEN "aa_raised" ELSE next
  /\ UNCHANGED <<block, env_monthly, analysis, saved, correlated>>
  /\ arrivals_unchanged

FetchCanary == FetchArrivals("canary", "fetch_canary", "fetch_mainland_sea")

FetchMainlandSea ==
  FetchArrivals("mainland_sea", "fetch_mainland_sea", "fetch_mainland_land")

FetchMainlandLand ==
  FetchArrivals("mainland_land", "fetch_mainland_land", "env_canary")

\* Lines 292-320 and 508-535, one turn of the loop over LOCATIONS: the two
\* calls of fetch_open_meteo_data and the aggregation.
FetchEnvironment(loc, at, next) ==
  /\ pc = at
  /\ \E m \in MarineResponses, a \in AtmosResponses :
       env_monthly' =
         [env_monthly EXCEPT ![block][loc] =
            env_of_location(fetch_open_meteo_data(m), fetch_open_meteo_data(a))]
  /\ pc' = next
  /\ UNCHANGED <<block, arrivals, analysis, saved, correlated>>
  /\ arrivals_unchanged

EnvCanary == FetchEnvironment("canary", "env_canary", "env_mainland")

EnvMainland == FetchEnvironment("mainland", "env_mainland", "merge_save")

\* Lines 327-328 and 333-334: the inner join of the arrivals of the route
\* with the monthly table of its location, only when neither is empty.  The
\* join is empty when the two tables share no month.
analysis_outcomes(arr, env) ==
  IF arr = "table" /\ env # {} THEN { "empty", "table" } ELSE { "empty" }

\* The file of each analysis table (lines 344 and 350).
analysis_csv ==
  [canary |-> "canary_analysis_data.csv",
   mainland |-> "mainland_sea_analysis_data.csv"]

\* Lines 322-355 and 538-571: the merges and the writes.  After the first
\* main block the second starts (line 487); after the second the
\* correlation follows.
MergeAndSave ==
  /\ pc = "merge_save"
  /\ \E c \in analysis_outcomes(arrivals[block]["canary"],
                                env_monthly[block]["canary"]),
        m \in analysis_outcomes(arrivals[block]["mainland_sea"],
                                env_monthly[block]["mainland"]) :
       /\ analysis' = [analysis EXCEPT ![block] = [canary |-> c, mainland |-> m]]
       /\ saved' = saved
            \cup (IF c = "table" THEN { <<block, analysis_csv["canary"]>> } ELSE {})
            \cup (IF m = "table" THEN { <<block, analysis_csv["mainland"]>> } ELSE {})
            \cup (IF arrivals[block]["mainland_land"] = "table"
                  THEN { <<block, "mainland_land_arrivals.csv">> } ELSE {})
  /\ IF block = 1
     THEN block' = 2 /\ pc' = "fetch_canary"
     ELSE block' = block /\ pc' = "correlate"
  /\ UNCHANGED <<arrivals, env_monthly, correlated>>
  /\ arrivals_unchanged

\* Lines 574-586: perform_correlation_analysis (and visualize_findings) for
\* each analysis table that is not empty.
Correlate ==
  /\ pc = "correlate"
  /\ correlated' = { l \in LOCATIONS : analysis[block][l] = "table" }
  /\ pc' = "aa_done"
  /\ UNCHANGED <<block, arrivals, env_monthly, analysis, saved>>
  /\ arrivals_unchanged

NextArrivals ==
  \/ FetchCanary
  \/ FetchMainlandSea
  \/ FetchMainlandLand
  \/ EnvCanary
  \/ EnvMainland
  \/ MergeAndSave
  \/ Correlate

SpecArrivals == InitArrivals /\ [][NextArrivals]_vars

\* The arrivals series of the route of a location.
RouteOf == [canary |-> "canary", mainland |-> "mainland_sea"]

\* The main block b has passed its merges and writes.
Merged(b) == b < block \/ pc \in { "correlate", "aa_done" }

\* C24: fetch_unhcr_data and fetch_open_meteo_data never raise, whatever the
\* answer; in each main block a route whose arrivals table or monthly
\* environmental table is empty gets no analysis CSV and no correlation
\* step, and the other route is merged, saved and correlated on its own
\* tables alone.
C24_FetchFailuresDegrade ==
  /\ pc # "aa_raised"
  /\ \A b \in 1 .. 2 : \A l \in LOCATIONS :
       /\ (arrivals[b][RouteOf[l]] \in { "none", "empty" } \/ env_monthly[b][l] = {})
            => /\ <<b, analysis_csv[l]>> \notin saved
               /\ (b = 2 => l \notin correlated)
       /\ Merged(b) =>
            (analysis[b][l] = "table" <=> <<b, analysis_csv[l]>> \in saved)
       /\ (b = 2 /\ pc = "aa_done") =>
            (analysis[b][l] = "table" <=> l \in correlated)

\* The second main block has ended; the arrivals of the Canary route could
\* not be fetched and the mainland route has its file and its correlation.
C24_Witness ==
  /\ pc = "aa_done"
  /\ arrivals[2]["canary"] = "empty"
  /\ env_monthly[2]["canary"] # {}
  /\ <<2, "canary_analysis_data.csv">> \notin saved
  /\ "canary" \notin correlated
  /\ <<2, "mainland_sea_analysis_data.csv">> \in saved
  /\ "mainland" \in correlated

====
